---- MODULE Spec2Model ----
(***************************************************************************)
(* A model of the API Type Detector background script and of its type      *)
(* generator (utils/typeGenerator.ts).                                      *)
(*                                                                         *)
(* JSON values are records [k |-> kind, v |-> payload]:                    *)
(*   "null" (v = 0), "undef" (v = 0), "num" (v an integer), "bool",         *)
(*   "str" (v a string), "arr" (v a sequence of values),                    *)
(*   "obj" (v a sequence of <<key, value>> entries in insertion order,      *)
(*          which is the order Object.entries enumerates string keys).      *)
(* Texts are TLA+ strings, built with \o exactly as the template literals   *)
(* of the source build them.                                                *)
(***************************************************************************)
EXTENDS Integers, Sequences, FiniteSets, TLC

(***************************************************************************)
(* Characters and strings                                                  *)
(***************************************************************************)

\* The printable ASCII characters in code order: 32 (space) to 95 (_), and
\* 97 (a) to 126 (~).
AsciiLow ==
  " !\"#$%&'()*+,-./0123456789:;<=>?@ABCDEFGHIJKLMNOPQRSTUVWXYZ[\\]^_"

AsciiHigh == "abcdefghijklmnopqrstuvwxyz{|}~"

CharAt(s, i) == SubSeq(s, i, i)

\* String.prototype.charCodeAt for the characters a text of the model holds;
\* the only control character the generator emits is the line feed.
CharCodeTable ==
  [c \in {CharAt(AsciiLow, i) : i \in 1..Len(AsciiLow)}
         \cup {CharAt(AsciiHigh, i) : i \in 1..Len(AsciiHigh)} |->
     IF \E i \in 1..Len(AsciiLow) : CharAt(AsciiLow, i) = c
     THEN 31 + CHOOSE i \in 1..Len(AsciiLow) : CharAt(AsciiLow, i) = c
     ELSE 96 + CHOOSE i \in 1..Len(AsciiHigh) : CharAt(AsciiHigh, i) = c]

charCodeAt(s, i) == IF CharAt(s, i) = "\n" THEN 10 ELSE CharCodeTable[CharAt(s, i)]

IsDigit(c) == charCodeAt(c, 1) \in 48..57
IsAlpha(c) == charCodeAt(c, 1) \in (65..90) \cup (97..122)

RECURSIVE SeqFold(_, _, _)
\* Array.prototype.forEach / reduce: the elements are visited first to last.
SeqFold(op(_, _), acc, s) ==
  IF s = <<>> THEN acc ELSE SeqFold(op, op(acc, Head(s)), Tail(s))

RECURSIVE join(_, _)
\* Array.prototype.join
join(parts, sep) ==
  IF parts = <<>> THEN ""
  ELSE IF Len(parts) = 1 THEN parts[1]
  ELSE parts[1] \o sep \o join(Tail(parts), sep)

\* Set.prototype.add on a Set kept as the sequence of its members in
\* insertion order: a member already present keeps its place.
SetAdd(set, x) ==
  IF \E i \in 1..Len(set) : set[i] = x THEN set ELSE Append(set, x)

RECURSIVE StrLess(_, _)
\* a < b in UTF-16 code unit order.
StrLess(a, b) ==
  IF Len(b) = 0 THEN FALSE
  ELSE IF Len(a) = 0 THEN TRUE
  ELSE IF charCodeAt(a, 1) # charCodeAt(b, 1) THEN charCodeAt(a, 1) < charCodeAt(b, 1)
  ELSE StrLess(SubSeq(a, 2, Len(a)), SubSeq(b, 2, Len(b)))

(***************************************************************************)
(* utils/typeGenerator.ts                                                  *)
(***************************************************************************)

Null == [k |-> "null", v |-> 0]
Undefined == [k |-> "undef", v |-> 0]
Num(n) == [k |-> "num", v |-> n]
Str(s) == [k |-> "str", v |-> s]
Bool(b) == [k |-> "bool", v |-> b]
Arr(items) == [k |-> "arr", v |-> items]
Obj(entries) == [k |-> "obj", v |-> entries]

\* typeof sample === 'object' && sample !== null && !Array.isArray(sample)
IsPlainObject(value) == value.k = "obj"

\* DEFAULT_OPTIONS merged with the options updateTypeDefinition passes.
DEFAULT_OPTIONS ==
  [indentSize |-> 2, detectDates |-> TRUE, analyzeAllArrayElements |-> FALSE,
   readonly |-> FALSE, generateComments |-> FALSE, maxArraySamples |-> 100]

RouteTypeOptions == [DEFAULT_OPTIONS EXCEPT !.analyzeAllArrayElements = TRUE]

AllDigits(s, from, to) == \A i \in from..to : IsDigit(CharAt(s, i))

DigitsValue(s, from, to) ==
  LET d(i) == charCodeAt(s, i) - 48
  IN  IF to = from + 1 THEN 10 * d(from) + d(to) ELSE d(from)

\* /^\d{4}-\d{2}-\d{2}(T\d{2}:\d{2}:\d{2}(\.\d{3})?Z?)?$/
MatchesIsoDatePattern(s) ==
  LET n == Len(s)
      datePart == /\ n >= 10
                  /\ AllDigits(s, 1, 4) /\ CharAt(s, 5) = "-"
                  /\ AllDigits(s, 6, 7) /\ CharAt(s, 8) = "-"
                  /\ AllDigits(s, 9, 10)
      timePart == /\ n >= 19
                  /\ CharAt(s, 11) = "T"
                  /\ AllDigits(s, 12, 13) /\ CharAt(s, 14) = ":"
                  /\ AllDigits(s, 15, 16) /\ CharAt(s, 17) = ":"
                  /\ AllDigits(s, 18, 19)
      rest == IF n >= 19 THEN SubSeq(s, 20, n) ELSE ""
      fraction == /\ Len(rest) >= 4 /\ CharAt(rest, 1) = "."
                  /\ AllDigits(rest, 2, 4)
      tail == IF fraction THEN SubSeq(rest, 5, Len(rest)) ELSE rest
  IN  /\ datePart
      /\ \/ n = 10
         \/ timePart /\ tail \in {"", "Z"}

\* !isNaN(new Date(value).getTime()) for a string of the ISO pattern: the
\* month, day and time fields are in range.
IsValidIsoInstant(s) ==
  /\ DigitsValue(s, 6, 7) \in 1..12
  /\ DigitsValue(s, 9, 10) \in 1..31
  /\ Len(s) > 10 =>
       /\ DigitsValue(s, 12, 13) \in 0..24
       /\ DigitsValue(s, 15, 16) \in 0..59
       /\ DigitsValue(s, 18, 19) \in 0..59

isDateString(value) == MatchesIsoDatePattern(value) /\ IsValidIsoInstant(value)

\* /^[a-zA-Z_$][a-zA-Z0-9_$]*$/.test(key) ? key : `"${key}"`
IsBareIdentifier(key) ==
  /\ Len(key) > 0
  /\ LET c == CharAt(key, 1) IN IsAlpha(c) \/ c \in {"_", "$"}
  /\ \A i \in 2..Len(key) :
       LET c == CharAt(key, i) IN IsAlpha(c) \/ IsDigit(c) \/ c \in {"_", "$"}

safeKey(key) == IF IsBareIdentifier(key) THEN key ELSE "\"" \o key \o "\""

\* The type inferType gives an object that visitedObjects holds; the words
\* of the comment are Japanese in the source.
CircularSentinel == "any /* circular reference */"

\* The elements of an array when the switch and the cap are ignored.
elementsAll(items, options) == items

\* options.analyzeAllArrayElements ? value : value.slice(0, options.maxArraySamples),
\* for a cap that is not negative.
elementsToAnalyze(items, options) ==
  IF options.analyzeAllArrayElements THEN items
  ELSE SubSeq(items, 1, IF Len(items) < options.maxArraySamples
                        THEN Len(items) ELSE options.maxArraySamples)

\* A value of kind "seen" stands where inferType meets an object that
\* visitedObjects holds (see Unfold below).
RECURSIVE inferType(_, _)
inferType(value, options) ==
  CASE value.k = "null" -> "null"
    [] value.k = "undef" -> "undefined"
    [] value.k = "str" ->
         IF options.detectDates /\ isDateString(value.v)
         THEN "string /* ISO Date */" ELSE "string"
    [] value.k = "arr" ->
         IF Len(value.v) = 0 THEN "any[]"
         ELSE LET samplesToAnalyze == elementsToAnalyze(value.v, options)
                  \* types.add(inferType(item, options)) for each item: a Set
                  \* keeps a type at the place of its first occurrence
                  itemTypes == [n \in 1..Len(samplesToAnalyze) |->
                                  inferType(samplesToAnalyze[n], options)]
                  firsts == {n \in 1..Len(itemTypes) :
                               \A m \in 1..(n - 1) : itemTypes[m] # itemTypes[n]}
                  uniqueTypes ==
                    [k \in 1..Cardinality(firsts) |->
                       itemTypes[CHOOSE n \in firsts :
                                   Cardinality({m \in firsts : m < n}) = k - 1]]
              IN  IF Len(uniqueTypes) = 1 THEN uniqueTypes[1] \o "[]"
                  ELSE "(" \o join(uniqueTypes, " | ") \o ")[]"
    [] value.k = "obj" ->
         LET properties ==
               [i \in 1..Len(value.v) |->
                  safeKey(value.v[i][1]) \o ": " \o inferType(value.v[i][2], options)]
         IN  IF Len(properties) = 0 THEN "Record<string, never>"
             ELSE "{ " \o join(properties, "; ") \o " }"
    [] value.k = "seen" -> CircularSentinel
    [] value.k = "num" -> "number"
    [] value.k = "bool" -> "boolean"

\* ' '.repeat(n)
RECURSIVE Spaces(_)
Spaces(n) == IF n = 0 THEN "" ELSE " " \o Spaces(n - 1)

\* The propertyMap of generateTypeFromSamples: a Map kept as the sequence of
\* its <<key, values>> entries in insertion order.
MapHas(map, key) == \E i \in 1..Len(map) : map[i][1] = key

MapPush(map, key, value) ==
  IF MapHas(map, key)
  THEN [i \in 1..Len(map) |->
          IF map[i][1] = key THEN <<key, Append(map[i][2], value)>> ELSE map[i]]
  ELSE Append(map, <<key, <<value>>>>)

collectProperties(samples) ==
  LET AddEntry(map, entry) == MapPush(map, entry[1], entry[2])
      AddSample(map, sample) ==
        IF IsPlainObject(sample) THEN SeqFold(AddEntry, map, sample.v) ELSE map
  IN  SeqFold(AddSample, <<>>, samples)

\* The null of a nullable field put in front of the other members.
withNullFirst(typeStr, hasNull) ==
  IF hasNull /\ typeStr # "any" THEN "null | " \o typeStr ELSE typeStr

\* if (hasNull && typeStr !== 'any') typeStr = typeStr + ' | null'
withNull(typeStr, hasNull) ==
  IF hasNull /\ typeStr # "any" THEN typeStr \o " | null" ELSE typeStr

\* The marker given to the fields that every sample carries instead.
optionalMarkerInverted(carried, totalSamples) ==
  IF carried < totalSamples THEN "" ELSE "?"

\* hasUndefined = values.length < totalSamples; optional = hasUndefined ? '?' : ''
optionalMarker(carried, totalSamples) ==
  IF carried < totalSamples THEN "?" ELSE ""

\* One line of the interface body: the callback of propertyMap.forEach.
renderProperty(key, values, totalSamples, opts) ==
  LET AddType(types, value) ==
        IF value.k \in {"null", "undef"} THEN types
        ELSE SetAdd(types, inferType(value, opts))
      types == SeqFold(AddType, <<>>, values)
      hasNull == \E i \in 1..Len(values) : values[i].k = "null"
      joined == join(types, " | ")
      typeStr0 == IF joined = "" THEN "any" ELSE joined
      typeStr == withNull(typeStr0, hasNull)
      optional == optionalMarker(Len(values), totalSamples)
      readonly == IF opts.readonly THEN "readonly " ELSE ""
      indentStr == Spaces(opts.indentSize)
      comment == IF opts.generateComments
                 THEN "\n" \o indentStr \o "/** count: "
                      \o ToString(Len(values)) \o "/" \o ToString(totalSamples) \o " */"
                 ELSE ""
  IN  comment \o "\n" \o indentStr \o readonly \o safeKey(key) \o optional
      \o ": " \o typeStr \o ";"

\* generateTypeFromSamples without its early return for an empty list.
generateTypeFromSamplesUnguarded(samples, typeName, opts) ==
  LET propertyMap == collectProperties(samples)
      properties == [i \in 1..Len(propertyMap) |->
                       renderProperty(propertyMap[i][1], propertyMap[i][2],
                                      Len(samples), opts)]
  IN  "interface " \o typeName \o " {" \o join(properties, "") \o "\n}"

generateTypeFromSamples(samples, typeName, opts) ==
  IF Len(samples) = 0
  THEN "interface " \o typeName \o " {\n  [key: string]: any;\n}"
  ELSE LET propertyMap == collectProperties(samples)
           properties == [i \in 1..Len(propertyMap) |->
                            renderProperty(propertyMap[i][1], propertyMap[i][2],
                                           Len(samples), opts)]
       IN  "interface " \o typeName \o " {" \o join(properties, "") \o "\n}"

(***************************************************************************)
(* utils/typeGenerator.ts on values that share objects                     *)
(*                                                                         *)
(* Objects that can be reached twice, or from themselves, live in a heap:  *)
(* a function from object identities to the <<key, value>> entries of the  *)
(* object, where a value of kind "ref" is a reference to an object of the  *)
(* heap.  visitedObjects is the set of the identities the WeakSet holds.   *)
(***************************************************************************)

Ref(id) == [k |-> "ref", v |-> id]
Seen == [k |-> "seen", v |-> 0]
StackOverflow == [k |-> "overflow", v |-> 0]

\* The number of nested calls of inferType the call stack has room for; the
\* call that would go deeper throws RangeError.
MaxStack == 6

RECURSIVE Unfold(_, _, _, _)
\* The values the recursion of inferType visits from a value: an object
\* that visitedObjects holds is not entered, every other object is entered
\* again, field by field, and so is every array.
Unfold(heap, visited, value, depth) ==
  IF depth > MaxStack THEN StackOverflow
  ELSE CASE value.k = "ref" ->
              IF value.v \in visited THEN Seen
              ELSE Obj([n \in 1..Len(heap[value.v]) |->
                          <<heap[value.v][n][1],
                            Unfold(heap, visited, heap[value.v][n][2], depth + 1)>>])
         [] value.k = "arr" ->
              Arr([n \in 1..Len(value.v) |-> Unfold(heap, visited, value.v[n], depth + 1)])
         [] OTHER -> value

RECURSIVE Overflows(_)
\* The recursion ran out of stack somewhere below this value.
Overflows(tree) ==
  CASE tree.k = "overflow" -> TRUE
    [] tree.k = "obj" -> \E n \in 1..Len(tree.v) : Overflows(tree.v[n][2])
    [] tree.k = "arr" -> \E n \in 1..Len(tree.v) : Overflows(tree.v[n])
    [] OTHER -> FALSE

\* What generateTypeFromJson leaves in visitedObjects when it never marks
\* the root.
rootNeverVisited(json) == {}

\* visitedObjects = new WeakSet() in generateTypeFromJson, and
\* visitedObjects.add(value) in generateType, which only the root reaches.
rootVisited(json) == IF json.k = "ref" THEN {json.v} ELSE {}

\* generateType for the root: its fields or elements are given to inferType.
generateType(tree, typeName, options) ==
  CASE tree.k = "null" -> "null"
    [] tree.k = "undef" -> "undefined"
    [] tree.k = "arr" -> inferType(tree, options)
    [] tree.k = "obj" ->
         LET properties ==
               [n \in 1..Len(tree.v) |->
                  "\n" \o Spaces(options.indentSize)
                  \o (IF options.readonly THEN "readonly " ELSE "")
                  \o safeKey(tree.v[n][1]) \o ": "
                  \o inferType(tree.v[n][2], options) \o ";"]
         IN  "interface " \o typeName \o " {" \o join(properties, "") \o "\n}"
    [] tree.k = "str" -> "string"
    [] tree.k = "num" -> "number"
    [] tree.k = "bool" -> "boolean"

\* The root as generateType goes through it: the root itself is entered
\* without a look at visitedObjects, which was emptied just before.
RootTree(heap, visited, json) ==
  CASE json.k = "ref" ->
         Obj([n \in 1..Len(heap[json.v]) |->
                <<heap[json.v][n][1], Unfold(heap, visited, heap[json.v][n][2], 1)>>])
    [] json.k = "arr" ->
         Arr([n \in 1..Len(json.v) |-> Unfold(heap, visited, json.v[n], 1)])
    [] OTHER -> json

\* generateTypeFromJson: what it leaves in visitedObjects, whether it threw
\* RangeError, and the text it returned.
generateTypeFromJson(heap, json, typeName, options) ==
  LET visited == rootVisited(json)
      tree == RootTree(heap, visited, json)
      typeDefinition == generateType(tree, typeName, options)
  IN  [visited |-> visited,
       threw |-> Overflows(tree),
       text |-> IF Overflows(tree) THEN ""
                ELSE IF json.k = "ref" THEN typeDefinition
                ELSE "type " \o typeName \o " = " \o typeDefinition \o ";"]

\* generateTypeFromSamples on samples of the heap: the values of the fields
\* of a sample go to inferType, with visitedObjects as the last call of
\* generateTypeFromJson left it.
generateTypeFromHeapSamples(heap, visited, samples, typeName, opts) ==
  LET trees == [i \in 1..Len(samples) |-> RootTree(heap, visited, samples[i])]
      threw == \E i \in 1..Len(trees) : Overflows(trees[i])
  IN  [visited |-> visited,
       threw |-> threw,
       text |-> IF threw THEN "" ELSE generateTypeFromSamples(trees, typeName, opts)]

(***************************************************************************)
(* Background script: serialization, hashing, bucketing                    *)
(***************************************************************************)

MAX_REQUESTS == 100

\* requests.slice(-10) in updateTypeDefinition
RecentWindow == 10

DEFAULT_SAMPLE_LIMIT == 20

TRACKED_METHODS == {"GET", "POST", "PUT", "PATCH", "DELETE"}

STATUS_BUCKET_ORDER ==
  <<"SUCCESS_2XX", "REDIRECT_3XX", "CLIENT_ERROR_4XX", "SERVER_ERROR_5XX", "OTHER">>

\* Array.prototype.indexOf, 0-based, -1 when absent.
indexOf(arr, x) ==
  IF \E i \in 1..Len(arr) : arr[i] = x
  THEN (CHOOSE i \in 1..Len(arr) : arr[i] = x /\ \A j \in 1..(i - 1) : arr[j] # x) - 1
  ELSE -1

RECURSIVE sortWith(_, _)
\* Array.prototype.sort with a comparator: a stable sort, so an element goes
\* after every element that does not compare greater than it.
sortWith(compare(_, _), arr) ==
  IF Len(arr) <= 1 THEN arr
  ELSE LET init == sortWith(compare, SubSeq(arr, 1, Len(arr) - 1))
           x == arr[Len(arr)]
           keep == {i \in 1..Len(init) : compare(init[i], x) <= 0}
           pos == IF keep = {} THEN 0 ELSE CHOOSE i \in keep : \A j \in keep : j <= i
       IN  SubSeq(init, 1, pos) \o <<x>> \o SubSeq(init, pos + 1, Len(init))

ToLower(c) ==
  LET code == charCodeAt(c, 1)
  IN  IF code \in 65..90 THEN CharAt(AsciiHigh, code - 64) ELSE c

RECURSIVE FoldedLess(_, _)
FoldedLess(a, b) ==
  IF Len(b) = 0 THEN FALSE
  ELSE IF Len(a) = 0 THEN TRUE
  ELSE IF ToLower(CharAt(a, 1)) # ToLower(CharAt(b, 1))
       THEN charCodeAt(ToLower(CharAt(a, 1)), 1) < charCodeAt(ToLower(CharAt(b, 1)), 1)
  ELSE FoldedLess(SubSeq(a, 2, Len(a)), SubSeq(b, 2, Len(b)))

\* String.prototype.localeCompare on keys of ASCII letters and digits: the
\* letters compare without case first, and a lower-case letter sorts before
\* its upper-case form when nothing else differs.
localeCompare(a, b) ==
  IF a = b THEN 0
  ELSE IF FoldedLess(a, b) THEN -1
  ELSE IF FoldedLess(b, a) THEN 1
  ELSE IF StrLess(b, a) THEN -1 ELSE 1

RECURSIVE EscapeJson(_)
EscapeJson(s) ==
  IF Len(s) = 0 THEN ""
  ELSE LET c == CharAt(s, 1)
           e == IF c = "\"" THEN "\\\"" ELSE IF c = "\\" THEN "\\\\"
                ELSE IF c = "\n" THEN "\\n" ELSE c
       IN  e \o EscapeJson(SubSeq(s, 2, Len(s)))

\* JSON.stringify of a string
QuoteJson(s) == "\"" \o EscapeJson(s) \o "\""

\* The entries of a mapping as an Object.entries that is never sorted gives them.
entriesAsInserted(entries) == entries

\* Object.entries(value).sort(([a], [b]) => a.localeCompare(b))
sortedEntries(entries) ==
  LET byKey(e1, e2) == localeCompare(e1[1], e2[1])
  IN  sortWith(byKey, entries)

RECURSIVE stableSerialize(_)
\* JSON.stringify(undefined) is undefined: its text is "undefined" inside a
\* template literal and empty inside Array.prototype.join.
stableSerialize(value) ==
  CASE value.k = "null" -> "null"
    [] value.k = "undef" -> "undefined"
    [] value.k = "num" -> ToString(value.v)
    [] value.k = "bool" -> IF value.v THEN "true" ELSE "false"
    [] value.k = "str" -> QuoteJson(value.v)
    [] value.k = "arr" ->
         LET items == [i \in 1..Len(value.v) |->
                         IF value.v[i].k = "undef" THEN ""
                         ELSE stableSerialize(value.v[i])]
         IN  "[" \o join(items, ",") \o "]"
    [] value.k = "obj" ->
         LET entries == sortedEntries(value.v)
             parts == [i \in 1..Len(entries) |->
                         QuoteJson(entries[i][1]) \o ":" \o stableSerialize(entries[i][2])]
         IN  "{" \o join(parts, ",") \o "}"

\* 32-bit integers are pairs <<high 16 bits, low 16 bits>>.
Word == 65536

RECURSIVE BitXor(_, _)
BitXor(a, b) ==
  IF a = 0 THEN b
  ELSE IF b = 0 THEN a
  ELSE ((a + b) % 2) + 2 * BitXor(a \div 2, b \div 2)

\* a ^ b on four bits, tabulated
XorNibble == [a \in 0..15 |-> [b \in 0..15 |-> BitXor(a, b)]]

\* a ^ b on 16 bits, four bits at a time
Xor16(a, b) ==
  XorNibble[a % 16][b % 16]
  + 16 * XorNibble[(a \div 16) % 16][(b \div 16) % 16]
  + 256 * XorNibble[(a \div 256) % 16][(b \div 256) % 16]
  + 4096 * XorNibble[a \div 4096][b \div 4096]

\* Math.imul(hash, 0x01000193): 0x0100 * 2^16 + 0x0193
imulPrime(hash) ==
  LET lo == hash[2] * 403
      hi == hash[1] * 403 + hash[2] * 256 + (lo \div Word)
  IN  <<hi % Word, lo % Word>>

HexDigits == "0123456789abcdef"

RECURSIVE toString16(_)
\* Number.prototype.toString(16) of a non-negative integer
toString16(n) ==
  IF n < 16 THEN CharAt(HexDigits, n + 1)
  ELSE toString16(n \div 16) \o CharAt(HexDigits, (n % 16) + 1)

\* A padStart that never pads.
padNever(s, width, fill) == s

RECURSIVE padStart(_, _, _)
padStart(s, width, fill) ==
  IF Len(s) >= width THEN s ELSE padStart(fill \o s, width, fill)

\* (hash >>> 0).toString(16): the high half without leading zeros, then the
\* low half in four digits, or the low half alone when the high half is 0.
toHex32(hash) ==
  IF hash[1] = 0 THEN toString16(hash[2])
  ELSE toString16(hash[1]) \o padStart(toString16(hash[2]), 4, "0")

RECURSIVE fnv1aFold(_, _, _, _)
\* The loop of fnv1aHash over input[from..to], one character after the other
\* (the range is halved, and the left half evaluated before the right half
\* starts, only to keep the evaluation shallow).
fnv1aFold(hash, input, from, to) ==
  IF from > to THEN hash
  ELSE IF from = to
       THEN imulPrime(<<hash[1], Xor16(hash[2], charCodeAt(input, from))>>)
  ELSE LET mid == (from + to) \div 2
           left == fnv1aFold(hash, input, from, mid)
       IN  IF left[1] >= 0 THEN fnv1aFold(left, input, mid + 1, to) ELSE left

\* 0x811c9dc5 = 0x811c * 2^16 + 0x9dc5
fnv1aHash(input) ==
  CHOOSE digest \in {padStart(toHex32(fnv1aFold(<<33052, 40389>>, text, 1, Len(text))), 8, "0") :
                       text \in {input}} : TRUE

\* getStatusBucket with the upper limit of each class off by one hundred:
\* the variant a wrong comparison constant would give.
getStatusBucketShifted(statusCode) ==
  IF statusCode.k = "undef" \/ statusCode.v = 0 \/ statusCode.v < 100 THEN "OTHER"
  ELSE IF statusCode.v >= 200 /\ statusCode.v < 400 THEN "SUCCESS_2XX"
  ELSE IF statusCode.v >= 400 /\ statusCode.v < 500 THEN "CLIENT_ERROR_4XX"
  ELSE IF statusCode.v >= 500 /\ statusCode.v < 600 THEN "SERVER_ERROR_5XX"
  ELSE "OTHER"

\* statusCode is Undefined or Num(n)
getStatusBucket(statusCode) ==
  IF statusCode.k = "undef" \/ statusCode.v = 0 \/ statusCode.v < 100 THEN "OTHER"
  ELSE IF statusCode.v >= 200 /\ statusCode.v < 300 THEN "SUCCESS_2XX"
  ELSE IF statusCode.v >= 300 /\ statusCode.v < 400 THEN "REDIRECT_3XX"
  ELSE IF statusCode.v >= 400 /\ statusCode.v < 500 THEN "CLIENT_ERROR_4XX"
  ELSE IF statusCode.v >= 500 /\ statusCode.v < 600 THEN "SERVER_ERROR_5XX"
  ELSE "OTHER"

\* statusBucketSuffix with the suffixes of the two error classes exchanged.
statusBucketSuffixSwapped(bucket) ==
  IF bucket = "SUCCESS_2XX" THEN "Success2xx"
  ELSE IF bucket = "REDIRECT_3XX" THEN "Redirect3xx"
  ELSE IF bucket = "CLIENT_ERROR_4XX" THEN "ServerError5xx"
  ELSE IF bucket = "SERVER_ERROR_5XX" THEN "ClientError4xx"
  ELSE "OtherStatus"

statusBucketSuffix(bucket) ==
  IF bucket = "SUCCESS_2XX" THEN "Success2xx"
  ELSE IF bucket = "REDIRECT_3XX" THEN "Redirect3xx"
  ELSE IF bucket = "CLIENT_ERROR_4XX" THEN "ClientError4xx"
  ELSE IF bucket = "SERVER_ERROR_5XX" THEN "ServerError5xx"
  ELSE "OtherStatus"

\* Number(a.isError)
BoolNumber(b) == IF b THEN 1 ELSE 0

compareGroups(a, b) ==
  LET orderA == indexOf(STATUS_BUCKET_ORDER, a.bucket)
      orderB == indexOf(STATUS_BUCKET_ORDER, b.bucket)
  IN  IF orderA # orderB THEN orderA - orderB
      ELSE BoolNumber(a.isError) - BoolNumber(b.isError)

\* sortGroupsForStableOutput without the sort: the groups in the order given.
sortGroupsInGivenOrder(groups) == groups

sortGroupsForStableOutput(groups) == sortWith(compareGroups, groups)

\* The error flag with the limit at 500 instead of 400.
isErrorStatusFrom500(statusCode) ==
  (IF statusCode.k = "undef" THEN 0 ELSE statusCode.v) >= 500

\* (req.statusCode ?? 0) >= 400
isErrorStatus(statusCode) ==
  (IF statusCode.k = "undef" THEN 0 ELSE statusCode.v) >= 400

groupKey(bucket, isError) == bucket \o ":" \o (IF isError THEN "error" ELSE "normal")

\* The callback of routeRequests.forEach when no existing group is ever
\* found: every request opens a group of its own.
addToGroupAlways(grouped, req) ==
  LET bucket == getStatusBucket(req.statusCode)
      isError == (IF req.statusCode.k = "undef" THEN 0 ELSE req.statusCode.v) >= 400
  IN  Append(grouped, <<bucket \o ":" \o ToString(Len(grouped)),
                        [bucket |-> bucket, isError |-> isError,
                         samples |-> <<req.response>>, count |-> 1]>>)

\* The callback of routeRequests.forEach: grouped is a Map kept as the
\* sequence of its <<key, group>> entries in insertion order.
addToGroup(grouped, req) ==
  LET bucket == getStatusBucket(req.statusCode)
      isError == isErrorStatus(req.statusCode)
      key == groupKey(bucket, isError)
  IN  IF MapHas(grouped, key)
      THEN [i \in 1..Len(grouped) |->
              IF grouped[i][1] = key
              THEN <<key, [grouped[i][2] EXCEPT !.samples = Append(@, req.response),
                                                !.count = @ + 1]>>
              ELSE grouped[i]]
      ELSE Append(grouped, <<key, [bucket |-> bucket, isError |-> isError,
                                   samples |-> <<req.response>>, count |-> 1]>>)

\* buildGroupedSamples returning Array.from(grouped.values()) as it is, in
\* the insertion order of the Map.
buildGroupedSamplesInsertionOrder(routeRequests) ==
  LET grouped == SeqFold(addToGroup, <<>>, routeRequests)
  IN  [i \in 1..Len(grouped) |-> grouped[i][2]]

buildGroupedSamples(routeRequests) ==
  LET grouped == SeqFold(addToGroup, <<>>, routeRequests)
  IN  sortGroupsForStableOutput([i \in 1..Len(grouped) |-> grouped[i][2]])

groupToJson(group) ==
  Obj(<< <<"bucket", Str(group.bucket)>>, <<"isError", Bool(group.isError)>>,
         <<"count", Num(group.count)>>, <<"samples", Arr(group.samples)>> >>)

buildRouteTypeSignature(routeId, groups) ==
  LET sorted == sortGroupsForStableOutput(groups)
      normalized == [i \in 1..Len(sorted) |-> groupToJson(sorted[i])]
  IN  fnv1aHash(stableSerialize(
        Obj(<< <<"routeId", Str(routeId)>>, <<"normalized", Arr(normalized)>> >>)))

\* generateTypeName: the separators of /[\/\-_\s\(\)\{\}\[\]]+/
IsNameSeparator(c) == c \in {"/", "-", "_", " ", "(", ")", "{", "}", "[", "]"}

ToUpper(c) ==
  LET code == charCodeAt(c, 1)
  IN  IF code \in 97..122 THEN CharAt(AsciiLow, code - 31 - 32) ELSE c

RECURSIVE MapChars(_, _)
MapChars(f(_), s) ==
  IF Len(s) = 0 THEN "" ELSE f(CharAt(s, 1)) \o MapChars(f, SubSeq(s, 2, Len(s)))

RECURSIVE splitName(_, _, _)
\* routeName.split(separators).filter((segment) => segment.length > 0)
splitName(s, current, acc) ==
  IF Len(s) = 0 THEN (IF current = "" THEN acc ELSE Append(acc, current))
  ELSE IF IsNameSeparator(CharAt(s, 1))
       THEN splitName(SubSeq(s, 2, Len(s)), "",
                      IF current = "" THEN acc ELSE Append(acc, current))
  ELSE splitName(SubSeq(s, 2, Len(s)), current \o CharAt(s, 1), acc)

\* word.charAt(0).toUpperCase() + word.slice(1).toLowerCase()
capitalize(word) ==
  ToUpper(CharAt(word, 1)) \o MapChars(ToLower, SubSeq(word, 2, Len(word)))

generateTypeName(routeName) ==
  LET segments == [i \in 1..Len(splitName(routeName, "", <<>>)) |->
                     capitalize(splitName(routeName, "", <<>>)[i])]
      \* segment.replace(/^(Api|Endpoint|Route)$/i, ''), then the empty ones go
      Keep(acc, segment) ==
        IF MapChars(ToLower, segment) \in {"api", "endpoint", "route"}
        THEN acc ELSE Append(acc, segment)
      cleaned == SeqFold(Keep, <<>>, segments)
      typeName == join(cleaned, "") \o "Response"
  IN  IF Len(cleaned) = 0 THEN "ApiResponse"
      ELSE IF IsDigit(CharAt(typeName, 1)) THEN "T" \o typeName
      ELSE typeName

endsWith(s, suffix) ==
  /\ Len(s) >= Len(suffix)
  /\ SubSeq(s, Len(s) - Len(suffix) + 1, Len(s)) = suffix

toTypeBaseName(routeName) ==
  LET typeName == generateTypeName(routeName)
  IN  IF endsWith(typeName, "Response")
      THEN SubSeq(typeName, 1, Len(typeName) - Len("Response"))
      ELSE typeName

\* The loop body deciding the Error marker from the class of the group alone.
groupDefinitionByClass(baseName, group) ==
  LET suffix == statusBucketSuffix(group.bucket)
      typeName == IF group.bucket \in {"CLIENT_ERROR_4XX", "SERVER_ERROR_5XX"}
                  THEN baseName \o suffix \o "ErrorResponse"
                  ELSE baseName \o suffix \o "Response"
  IN  generateTypeFromSamples(group.samples, typeName, RouteTypeOptions)

\* The body of the loop for (const group of groups) of updateTypeDefinition.
groupDefinition(baseName, group) ==
  LET suffix == statusBucketSuffix(group.bucket)
      typeName == IF group.isError
                  THEN baseName \o suffix \o "ErrorResponse"
                  ELSE baseName \o suffix \o "Response"
  IN  generateTypeFromSamples(group.samples, typeName, RouteTypeOptions)

groupedDefinitions(baseName, groups) ==
  [i \in 1..Len(groups) |-> groupDefinition(baseName, groups[i])]

(***************************************************************************)
(* Background script: routes, requests, types                              *)
(***************************************************************************)

\* The ApiRoute the ADD_ROUTE handler builds for a message that is not for
\* auto-detection and carries the name as its pattern; "" is a missing
\* baseUrl, parentId, method or path.
ApiRoute(id, name) ==
  [id |-> id, pattern |-> name, name |-> name, enabled |-> TRUE,
   isAutoDetect |-> FALSE, baseUrl |-> "", parentId |-> "", method |-> "", path |-> ""]

\* The fields of a RecordedRequest that type generation reads.
RecordedRequest(routeId, response, statusCode) ==
  [routeId |-> routeId, response |-> response, statusCode |-> statusCode]

\* The truth value JavaScript gives a JSON value in a condition.
IsTruthy(value) ==
  CASE value.k \in {"null", "undef"} -> FALSE
    [] value.k = "num" -> value.v # 0
    [] value.k = "str" -> value.v # ""
    [] value.k = "bool" -> value.v
    [] OTHER -> TRUE

\* Array.prototype.slice(-n)
sliceLast(arr, n) == SubSeq(arr, IF Len(arr) > n THEN Len(arr) - n + 1 ELSE 1, Len(arr))

\* routeWindow without the filter on the route: the recorded responses of
\* every route go on to bucketing.
routeWindowOfAnyRoute(route, allRequests) ==
  LET WithResponse(req) == IsTruthy(req.response)
  IN  sliceLast(SelectSeq(allRequests, WithResponse), RecentWindow)

\* routeWindow without slice(-10): every recorded response of the route goes
\* on to bucketing.
routeWindowUncut(route, allRequests) ==
  LET Mine(req) == req.routeId = route.id /\ IsTruthy(req.response)
  IN  SelectSeq(allRequests, Mine)

\* allRequests.filter((req) => req.routeId === route.id && req.response).slice(-10)
routeWindow(route, allRequests) ==
  LET Mine(req) == req.routeId = route.id /\ IsTruthy(req.response)
  IN  sliceLast(SelectSeq(allRequests, Mine), RecentWindow)

\* state.types.findIndex((item) => item.routeId === route.id), 1-based, 0
\* when there is none; find returns the entry at the same place.
findTypeIndex(types, routeId) ==
  IF \E i \in 1..Len(types) : types[i].routeId = routeId
  THEN CHOOSE i \in 1..Len(types) :
         /\ types[i].routeId = routeId
         /\ \A j \in 1..(i - 1) : types[j].routeId # routeId
  ELSE 0

\* The GeneratedType literal with its signature left out.
generatedTypeWithoutSignature(routeId, routeName, baseName, typeDefinition, sampleCount, lastUpdated, signature) ==
  [routeId |-> routeId, routeName |-> routeName, typeName |-> baseName \o "Response",
   typeDefinition |-> typeDefinition, sampleCount |-> sampleCount,
   lastUpdated |-> lastUpdated, signature |-> ""]

\* The GeneratedType literal of updateTypeDefinition.
generatedType(routeId, routeName, baseName, typeDefinition, sampleCount, lastUpdated, signature) ==
  [routeId |-> routeId, routeName |-> routeName, typeName |-> baseName \o "Response",
   typeDefinition |-> typeDefinition, sampleCount |-> sampleCount,
   lastUpdated |-> lastUpdated, signature |-> signature]

\* state.types.push(generatedType) whether the route has an entry or not.
storeTypeByPush(types, generated) == Append(types, generated)

\* The entry of state.types after state.types[existingIndex] = generatedType
\* or state.types.push(generatedType).
storeType(types, generated) ==
  LET existingIndex == findTypeIndex(types, generated.routeId)
  IN  IF existingIndex > 0 THEN [types EXCEPT ![existingIndex] = generated]
      ELSE Append(types, generated)

RECURSIVE splitLines(_)
\* code.split('\n')
splitLines(code) ==
  LET breaks == {i \in 1..Len(code) : CharAt(code, i) = "\n"}
  IN  IF breaks = {} THEN <<code>>
      ELSE LET first == CHOOSE i \in breaks : \A j \in breaks : i <= j
           IN  <<SubSeq(code, 1, first - 1)>> \o splitLines(SubSeq(code, first + 1, Len(code)))

startsWith(s, prefix) == Len(s) >= Len(prefix) /\ SubSeq(s, 1, Len(prefix)) = prefix

\* prettier's typescript parser rejects the code when the name of a
\* declaration is no identifier; format then rejects its promise.
formatCodeRejects(code) ==
  \E lines \in {splitLines(code)} : \E i \in 1..Len(lines) :
    /\ startsWith(lines[i], "interface ")
    /\ ~IsBareIdentifier(SubSeq(lines[i], Len("interface ") + 1, Len(lines[i]) - 2))

\* formatCode on the declarations the generator emits for fields with bare
\* names: with semi: false the semicolon that ends a member goes, the lines
\* and their indentation of two spaces stay, and the text ends with a line
\* break.
formatCode(code) ==
  LET lines == splitLines(code)
      WithoutSemicolon(line) ==
        IF endsWith(line, ";") THEN SubSeq(line, 1, Len(line) - 1) ELSE line
  IN  join([i \in 1..Len(lines) |-> WithoutSemicolon(lines[i])], "\n") \o "\n"

(***************************************************************************)
(* utils/urlParser.ts, on absolute http(s) URLs in the form new URL keeps   *)
(* them (lower-case host, no default port, no dot segments)                *)
(***************************************************************************)

RECURSIVE split(_, _)
\* String.prototype.split for a separator of one character
split(s, sep) ==
  LET at == {i \in 1..Len(s) : CharAt(s, i) = sep}
  IN  IF at = {} THEN <<s>>
      ELSE LET first == CHOOSE i \in at : \A j \in at : i <= j
           IN  <<SubSeq(s, 1, first - 1)>> \o split(SubSeq(s, first + 1, Len(s)), sep)

\* The least member of a set of positions, or the position after the text.
FirstOf(positions, text) ==
  IF positions = {} THEN Len(text) + 1
  ELSE CHOOSE i \in positions : \A j \in positions : i <= j

\* Whether new URL(url) returns: the text has a scheme and a host.
IsAbsoluteUrl(url) ==
  \/ startsWith(url, "https://") /\ Len(url) > Len("https://")
  \/ startsWith(url, "http://") /\ Len(url) > Len("http://")

\* Where the host of an absolute URL begins
HostStart(url) == IF startsWith(url, "https://") THEN Len("https://") + 1 ELSE Len("http://") + 1

\* new URL(url).origin
urlOrigin(url) ==
  LET ends == {i \in HostStart(url)..Len(url) : CharAt(url, i) \in {"/", "?", "#"}}
  IN  SubSeq(url, 1, FirstOf(ends, url) - 1)

\* new URL(url).pathname
urlPathname(url) ==
  LET rest == SubSeq(url, Len(urlOrigin(url)) + 1, Len(url))
      ends == {i \in 1..Len(rest) : CharAt(rest, i) \in {"?", "#"}}
      path == SubSeq(rest, 1, FirstOf(ends, rest) - 1)
  IN  IF path = "" THEN "/" ELSE path

\* getBaseUrl: the URL without its query and fragment
getBaseUrl(url) ==
  IF IsAbsoluteUrl(url) THEN urlOrigin(url) \o urlPathname(url)
  ELSE split(split(url, "?")[1], "#")[1]

\* extractPath: the catch branch searches /^https?:\/\/[^/]+(\/[^?#]*)/, which
\* no text matches that new URL has refused for want of a scheme.
extractPath(url) == IF IsAbsoluteUrl(url) THEN urlPathname(url) ELSE "/"

\* matchesBaseUrl
matchesBaseUrl(url, baseUrl) ==
  /\ IsAbsoluteUrl(url) /\ IsAbsoluteUrl(baseUrl)
  /\ urlOrigin(url) = urlOrigin(baseUrl)
  /\ startsWith(urlPathname(url), urlPathname(baseUrl))

IsHexDigit(c) == IsDigit(c) \/ charCodeAt(c, 1) \in (65..70) \cup (97..102)

\* /^\d+$/.test(seg)
IsNumericSegment(seg) == Len(seg) > 0 /\ \A i \in 1..Len(seg) : IsDigit(CharAt(seg, i))

\* /^[0-9a-f]{8}-[0-9a-f]{4}-[0-9a-f]{4}-[0-9a-f]{4}-[0-9a-f]{12}$/i.test(seg)
IsUuidSegment(seg) ==
  /\ Len(seg) = 36
  /\ \A i \in 1..36 :
       IF i \in {9, 14, 19, 24} THEN CharAt(seg, i) = "-" ELSE IsHexDigit(CharAt(seg, i))

\* normalizePath: numbers and UUIDs become :id
normalizePath(path) ==
  LET segments == split(path, "/")
  IN  join([i \in 1..Len(segments) |->
              IF IsNumericSegment(segments[i]) \/ IsUuidSegment(segments[i])
              THEN ":id" ELSE segments[i]], "/")

\* generateRouteName
generateRouteName(path, method) ==
  LET NonEmpty(seg) == Len(seg) > 0
      segments == SelectSeq(split(path, "/"), NonEmpty)
      named == [i \in 1..Len(segments) |->
                  capitalize(IF IsNumericSegment(segments[i]) \/ IsUuidSegment(segments[i])
                             THEN ":id" ELSE segments[i])]
      pathName == join(named, " ")
  IN  method \o " " \o (IF pathName = "" THEN "/" ELSE pathName)

\* String.prototype.includes
includes(s, part) ==
  \E i \in 1..(Len(s) - Len(part) + 1) : SubSeq(s, i, i + Len(part) - 1) = part

\* /\w/
IsWordChar(c) == IsAlpha(c) \/ IsDigit(c) \/ c = "_"

RECURSIVE patternToRegex(_)
\* patternToRegex, for a pattern without the characters it escapes and not
\* ending in $: the regular expression as the list of its parts, a
\* character or "param" for [^/?#]+ (what :\w+ is replaced by); the end
\* (\?.*)?$ is part of matchesToEnd.
patternToRegex(pattern) ==
  IF pattern = "" THEN <<>>
  ELSE IF CharAt(pattern, 1) = ":" /\ Len(pattern) > 1 /\ IsWordChar(CharAt(pattern, 2))
  THEN LET others == {i \in 2..Len(pattern) : ~IsWordChar(CharAt(pattern, i))}
           after == FirstOf(others, pattern)
       IN  <<"param">> \o patternToRegex(SubSeq(pattern, after, Len(pattern)))
  ELSE <<CharAt(pattern, 1)>> \o patternToRegex(SubSeq(pattern, 2, Len(pattern)))

RECURSIVE matchesToEnd(_, _)
\* Whether the parts, followed by (\?.*)?$, match the whole of the text
matchesToEnd(parts, text) ==
  IF parts = <<>> THEN text = "" \/ CharAt(text, 1) = "?"
  ELSE IF parts[1] = "param"
  THEN \E n \in 1..Len(text) :
         /\ \A i \in 1..n : CharAt(text, i) \notin {"/", "?", "#"}
         /\ matchesToEnd(Tail(parts), SubSeq(text, n + 1, Len(text)))
  ELSE /\ text # "" /\ CharAt(text, 1) = parts[1]
       /\ matchesToEnd(Tail(parts), SubSeq(text, 2, Len(text)))

\* matchesPattern, for patterns without regular expression syntax: a
\* pattern with a colon is matched as a path pattern against the URL
\* without its query, any other one is searched in the URL.
matchesPattern(url, pattern) ==
  IF includes(pattern, ":")
  THEN LET target == getBaseUrl(url)
       IN  \E i \in 1..(Len(target) + 1) :
             matchesToEnd(patternToRegex(pattern), SubSeq(target, i, Len(target)))
  ELSE includes(url, pattern)

(***************************************************************************)
(* State                                                                   *)
(***************************************************************************)

VARIABLES
  pc,             \* "input" before a function under check has run, then "done"
  inSamples,      \* a list of samples, in the order it was built
  inFed,          \* the same samples in the order they are fed in
  outDefinition,  \* generateTypeFromSamples(inFed, ...)
  inStatusCode,   \* a status code: Undefined or Num(n)
  outBucket,      \* getStatusBucket(inStatusCode)
  inRequests,     \* a window of recorded requests of one route
  inArrival,      \* the same requests in their arrival order
  outGroups,      \* buildGroupedSamples(inArrival)
  outSignature,   \* buildRouteTypeSignature(route id, outGroups)
  outDefinitions, \* the groupedDefinitions of updateTypeDefinition for outGroups
  heap,           \* the objects the type generator is called on
  visitedObjects, \* the WeakSet visitedObjects of typeGenerator.ts
  calls,          \* the number of calls of the type generator made so far
  outcome,        \* the last call of the type generator and what came of it
  inValue,        \* a value of a response
  inVariant,      \* the same value with mapping keys and array elements rearranged
  outSerialized,  \* stableSerialize of inValue and of inVariant
  outHash,        \* fnv1aHash of each of the two serializations
  storage_requests, \* browser.storage.local: requests (storage-backed script)
  storage_types,    \* browser.storage.local: types (storage-backed script)
  handlers,         \* the onCompleted handlers of the storage-backed script
  inArray,          \* an array value
  inOptions,        \* the options inferType is called with
  outArrayType,     \* inferType(inArray, inOptions)
  state_routes,      \* state.routes
  state_requests,    \* state.requests
  state_types,       \* state.types
  dirtyKeys,         \* the keys marked dirty and not yet flushed
  storageFlushTimer, \* TRUE while a flush timer is armed, FALSE for null
  regenerations,     \* the calls of regenerateAllTypes that have not returned
  nextRouteId,       \* the number the next route id is made of
  clock,             \* Date.now()
  events,            \* the number of messages and captures handled so far
  settled,           \* routes whose last run of updateTypeDefinition still stands
  lastCall,          \* the call of updateTypeDefinition the last step made, if any
  state_sampleLimit, \* state.sampleLimit
  storage,           \* browser.storage.local: the value stored under each key
  storageWriteChain, \* the writes of flushDirtyKeys that have not settled
  webRequests,       \* the web requests the browser has reported, by request id
  requestBodies,     \* the Map requestBodies
  responseBodies,    \* the Map responseBodies
  responseMeta       \* the Map responseMeta

sampleVars == <<inSamples, inFed, outDefinition>>
statusVars == <<inStatusCode, outBucket>>
groupVars == <<inRequests, inArrival, outGroups, outSignature, outDefinitions>>
flushVars == <<state_sampleLimit, storage, storageWriteChain>>
machineVars ==
  <<state_routes, state_requests, state_types, dirtyKeys, storageFlushTimer,
    regenerations, nextRouteId, clock, events, settled, lastCall, flushVars>>
cycleVars == <<heap, visitedObjects, calls, outcome>>
serializeVars == <<inValue, inVariant, outSerialized, outHash>>
storageVars == <<storage_requests, storage_types, handlers>>
arrayVars == <<inArray, inOptions, outArrayType>>
captureVars == <<webRequests, requestBodies, responseBodies, responseMeta>>
pureVars ==
  <<pc, sampleVars, statusVars, groupVars, cycleVars, serializeVars, storageVars,
    arrayVars, captureVars>>
vars == <<pureVars, machineVars>>

SamplesIdle == inSamples = <<>> /\ inFed = <<>> /\ outDefinition = ""
StatusIdle == inStatusCode = Undefined /\ outBucket = ""
GroupsIdle ==
  /\ inRequests = <<>> /\ inArrival = <<>> /\ outGroups = <<>>
  /\ outSignature = "" /\ outDefinitions = <<>>

\* No call of the type generator
NoOutcome == [call |-> "", input |-> <<>>, threw |-> FALSE, text |-> ""]

CyclesIdle == heap = <<>> /\ visitedObjects = {} /\ calls = 0 /\ outcome = NoOutcome

SerializeIdle ==
  inValue = Null /\ inVariant = Null /\ outSerialized = <<>> /\ outHash = <<>>

StorageIdle == storage_requests = <<>> /\ storage_types = <<>> /\ handlers = <<>>

ArraysIdle == inArray = Null /\ inOptions = DEFAULT_OPTIONS /\ outArrayType = ""

\* A Map without entries
EmptyMap == [id \in {} |-> Null]

CaptureIdle ==
  /\ webRequests = <<>>
  /\ requestBodies = EmptyMap /\ responseBodies = EmptyMap /\ responseMeta = EmptyMap

\* The content of browser.storage.local under the four keys.
StorageOf(routes, requests, types, sampleLimit) ==
  [routes |-> routes, requests |-> requests, types |-> types, sampleLimit |-> sampleLimit]

\* No call of updateTypeDefinition
NoCall == [routeId |-> "", settled |-> FALSE, result |-> ""]

\* The state of a background script that has loaded an empty storage.
MachineIdle ==
  /\ state_routes = <<>> /\ state_requests = <<>> /\ state_types = <<>>
  /\ dirtyKeys = {} /\ storageFlushTimer = FALSE
  /\ regenerations = <<>>
  /\ nextRouteId = 1 /\ clock = 1 /\ events = 0
  /\ settled = {} /\ lastCall = NoCall
  /\ state_sampleLimit = DEFAULT_SAMPLE_LIMIT
  /\ storage = StorageOf(<<>>, <<>>, <<>>, DEFAULT_SAMPLE_LIMIT)
  /\ storageWriteChain = <<>>

(***************************************************************************)
(* Inputs                                                                  *)
(***************************************************************************)

MaxSamples == 2
MaxWindow == 3
MaxStatusCode == 650

\* The bijections of 1..n: the orders in which n things can arrive.
Orders(n) == {p \in [1..n -> 1..n] : \A i, j \in 1..n : p[i] = p[j] => i = j}

Reorder(s, p) == [i \in 1..Len(s) |-> s[p[i]]]

SeqsUpTo(S, n) == UNION {[1..m -> S] : m \in 0..n}

SampleKeys == {"a", "b"}
SampleValues == {Num(1), Str("x"), Null}

\* The objects over SampleKeys: every choice of distinct keys, in every
\* insertion order, with every value.
SampleObjects ==
  {Obj(e) : e \in {e \in SeqsUpTo(SampleKeys \X SampleValues, Cardinality(SampleKeys)) :
                     \A i, j \in 1..Len(e) : e[i][1] = e[j][1] => i = j}}

\* The values of the field of the samples below: primitives, null, arrays
\* of mixed elements, and two objects that differ in the insertion order of
\* their keys only.
ObjectXY == Obj(<< <<"x", Num(1)>>, <<"y", Str("s")>> >>)
ObjectYX == Obj(<< <<"y", Str("s")>>, <<"x", Num(1)>> >>)

UnionValues ==
  {Num(1), Str("x"), Null, ObjectXY, ObjectYX,
   Arr(<<Null, Num(1)>>), Arr(<<ObjectXY, ObjectYX>>)}

\* Samples with the one field a, the sample without fields, and samples
\* that are no objects: null, a number, an array.
TypedSamples ==
  {Obj(<< <<"a", v>> >>) : v \in UnionValues}
    \cup {Obj(<<>>), Null, Num(7), Arr(<<Num(1)>>)}

ResponseA == Obj(<< <<"id", Num(1)>> >>)
ResponseB == Obj(<< <<"name", Str("x")>>, <<"id", Null>> >>)

\* Status codes of every class, on both sides of the rule for the error flag
\* inside the class "other", two codes of one class, and the missing code.
StatusCodes == {Undefined, Num(0), Num(200), Num(201), Num(302), Num(404), Num(500), Num(600)}

RouteId == "r1"
RouteName == "users"

Request(response, statusCode) == RecordedRequest(RouteId, response, statusCode)

\* The requests of the bucketing runs: every status code.
BucketRequests == {Request(ResponseA, c) : c \in StatusCodes}

\* The requests of the signature runs: three groups, and two different
\* responses inside one of them.
SignatureRequests ==
  {Request(ResponseA, Num(200)), Request(ResponseB, Num(200)),
   Request(ResponseA, Num(404)), Request(ResponseA, Undefined)}

\* The bucketing example of the specification: status codes 200, 201, 404, 500.
ExampleWindow ==
  [i \in 1..4 |-> Request(ResponseA, <<Num(200), Num(201), Num(404), Num(500)>>[i])]

(***************************************************************************)
(* generateTypeFromSamples as a function of its input                      *)
(***************************************************************************)

InitSamples ==
  /\ pc = "input"
  /\ inSamples \in SeqsUpTo(SampleObjects, MaxSamples) \cup [1..3 -> TypedSamples]
  /\ inFed = <<>> /\ outDefinition = ""
  /\ StatusIdle /\ GroupsIdle /\ CyclesIdle /\ SerializeIdle /\ StorageIdle
  /\ ArraysIdle /\ MachineIdle /\ CaptureIdle

GenerateFromSamples ==
  /\ pc = "input"
  /\ \E p \in Orders(Len(inSamples)) :
       LET fed == Reorder(inSamples, p)
       IN  /\ inFed' = fed
           /\ outDefinition' = generateTypeFromSamples(fed, "UsersResponse", RouteTypeOptions)
  /\ pc' = "done"
  /\ UNCHANGED <<inSamples, statusVars, groupVars, cycleVars, serializeVars, storageVars,
                 arrayVars, machineVars, captureVars>>

NextSamples == GenerateFromSamples

SpecSamples == InitSamples /\ [][NextSamples]_vars

(***************************************************************************)
(* getStatusBucket as a function of its input                              *)
(***************************************************************************)

InitStatus ==
  /\ pc = "input"
  /\ inStatusCode \in {Undefined} \cup {Num(n) : n \in 0..MaxStatusCode}
  /\ outBucket = ""
  /\ SamplesIdle /\ GroupsIdle /\ CyclesIdle /\ SerializeIdle /\ StorageIdle
  /\ ArraysIdle /\ MachineIdle /\ CaptureIdle

ClassifyStatus ==
  /\ pc = "input"
  /\ outBucket' = getStatusBucket(inStatusCode)
  /\ pc' = "done"
  /\ UNCHANGED <<inStatusCode, sampleVars, groupVars, cycleVars, serializeVars,
                 storageVars,
                 arrayVars, machineVars, captureVars>>

NextStatus == ClassifyStatus

SpecStatus == InitStatus /\ [][NextStatus]_vars

(***************************************************************************)
(* Bucketing, signature and declarations as functions of a request window  *)
(***************************************************************************)

InitGroups ==
  /\ pc = "input"
  /\ inRequests \in SeqsUpTo(BucketRequests, MaxWindow) \cup {ExampleWindow}
  /\ inArrival = <<>> /\ outGroups = <<>> /\ outSignature = "" /\ outDefinitions = <<>>
  /\ SamplesIdle /\ StatusIdle /\ CyclesIdle /\ SerializeIdle /\ StorageIdle
  /\ ArraysIdle /\ MachineIdle /\ CaptureIdle

\* buildGroupedSamples and the declaration loop of updateTypeDefinition
GroupRequests ==
  /\ pc = "input"
  /\ LET groups == buildGroupedSamples(inRequests)
     IN  /\ inArrival' = inRequests
         /\ outGroups' = groups
         /\ outDefinitions' = groupedDefinitions(toTypeBaseName(RouteName), groups)
  /\ pc' = "done"
  /\ UNCHANGED <<inRequests, outSignature, sampleVars, statusVars, cycleVars,
                 serializeVars, storageVars,
                 arrayVars, machineVars, captureVars>>

NextGroups == GroupRequests

SpecGroups == InitGroups /\ [][NextGroups]_vars

(***************************************************************************)
(* The signature as a function of a request window and its arrival order   *)
(***************************************************************************)

InitSignature ==
  /\ pc = "input"
  /\ inRequests \in SeqsUpTo(SignatureRequests, MaxWindow)
  /\ inArrival = <<>> /\ outGroups = <<>> /\ outSignature = "" /\ outDefinitions = <<>>
  /\ SamplesIdle /\ StatusIdle /\ CyclesIdle /\ SerializeIdle /\ StorageIdle
  /\ ArraysIdle /\ MachineIdle /\ CaptureIdle

SignRequests ==
  /\ pc = "input"
  /\ \E p \in Orders(Len(inRequests)) :
       LET arrival == Reorder(inRequests, p)
           groups == buildGroupedSamples(arrival)
       IN  /\ inArrival' = arrival
           /\ outGroups' = groups
           /\ outSignature' = buildRouteTypeSignature(RouteId, groups)
  /\ pc' = "done"
  /\ UNCHANGED <<inRequests, outDefinitions, sampleVars, statusVars, cycleVars,
                 serializeVars, storageVars,
                 arrayVars, machineVars, captureVars>>

NextSignature == SignRequests

SpecSignature == InitSignature /\ [][NextSignature]_vars

(***************************************************************************)
(* The serialization of a value, and its hash                              *)
(***************************************************************************)

\* The keys of the mappings: "a" sorts before "B" for localeCompare, and
\* after it by character code.
SerializeKeys == {"a", "B"}

SerializeAtoms == {Num(1), Null}

\* Every mapping over a set of values: every choice of distinct keys, in
\* every insertion order.
MappingsOver(values) ==
  {Obj(e) : e \in {f \in SeqsUpTo(SerializeKeys \X values, Cardinality(SerializeKeys)) :
                     \A i, j \in 1..Len(f) : f[i][1] = f[j][1] => i = j}}

\* Every array of at most two elements over a set of values.
ArraysOver(values) == {Arr(e) : e \in SeqsUpTo(values, 2)}

FlatValues == SerializeAtoms \cup MappingsOver(SerializeAtoms) \cup ArraysOver(SerializeAtoms)

\* Values with mappings and arrays inside mappings and arrays.
SerializeValues == FlatValues \cup MappingsOver(FlatValues) \cup ArraysOver(FlatValues)

RECURSIVE Variants(_)
\* A value with the keys of its mappings inserted in another order and the
\* elements of its arrays in reversed positions, at every nesting level.
Variants(value) ==
  CASE value.k = "obj" ->
         LET n == Len(value.v)
             inner == [i \in 1..n |-> Variants(value.v[i][2])]
         IN  {Obj([i \in 1..n |-> <<value.v[p[i]][1], f[p[i]]>>]) :
                p \in Orders(n),
                f \in {g \in [1..n -> UNION {inner[i] : i \in 1..n}] :
                         \A i \in 1..n : g[i] \in inner[i]}}
    [] value.k = "arr" ->
         LET n == Len(value.v)
             inner == [i \in 1..n |-> Variants(value.v[i])]
         IN  {Arr([i \in 1..n |-> f[p[i]]]) :
                p \in {[i \in 1..n |-> i], [i \in 1..n |-> n + 1 - i]},
                f \in {g \in [1..n -> UNION {inner[i] : i \in 1..n}] :
                         \A i \in 1..n : g[i] \in inner[i]}}
    [] OTHER -> {value}

InitSerialize ==
  /\ pc = "input"
  /\ inValue \in SerializeValues
  /\ inVariant = Null /\ outSerialized = <<>> /\ outHash = <<>>
  /\ SamplesIdle /\ StatusIdle /\ GroupsIdle /\ CyclesIdle /\ StorageIdle
  /\ ArraysIdle /\ MachineIdle /\ CaptureIdle

\* stableSerialize on the value and on one of its variants
SerializeValue ==
  /\ pc = "input"
  /\ \E variant \in Variants(inValue) :
       /\ inVariant' = variant
       /\ outSerialized' = <<stableSerialize(inValue), stableSerialize(variant)>>
  /\ pc' = "serialized"
  /\ UNCHANGED <<inValue, outHash, sampleVars, statusVars, groupVars,
                 cycleVars, storageVars, arrayVars,
                 machineVars, captureVars>>

\* fnv1aHash on each of the two serializations
HashSerialized ==
  /\ pc = "serialized"
  /\ outHash' = <<fnv1aHash(outSerialized[1]), fnv1aHash(outSerialized[2])>>
  /\ pc' = "done"
  /\ UNCHANGED <<inValue, inVariant, outSerialized>>
  /\ UNCHANGED <<sampleVars, statusVars, groupVars, cycleVars, storageVars, arrayVars,
                 machineVars, captureVars>>

NextSerialize == SerializeValue \/ HashSerialized

SpecSerialize == InitSerialize /\ [][NextSerialize]_vars

(***************************************************************************)
(* inferType on arrays, under both settings of analyzeAllArrayElements     *)
(***************************************************************************)

\* How many times the first element is repeated at the head of the array:
\* arrays shorter than the default cap of 100, of its length, and longer.
HeadLengths == {0, 1, 2, 99, 100, 101}

ArrayElements == {Num(1), Str("a"), Null}

\* The caps tried: the default one and a small one.
ArrayCaps == {2, DEFAULT_OPTIONS.maxArraySamples}

\* An element repeated, then up to two elements more.
ArrayInputs ==
  {Arr([i \in 1..n |-> x] \o tail) :
     n \in HeadLengths, x \in ArrayElements, tail \in SeqsUpTo(ArrayElements, 2)}

InitArrays ==
  /\ pc = "input"
  /\ inArray \in ArrayInputs
  /\ inOptions \in {[DEFAULT_OPTIONS EXCEPT !.analyzeAllArrayElements = all,
                                             !.maxArraySamples = cap] :
                       all \in BOOLEAN, cap \in ArrayCaps}
  /\ outArrayType = ""
  /\ SamplesIdle /\ StatusIdle /\ GroupsIdle /\ CyclesIdle /\ SerializeIdle
  /\ StorageIdle /\ MachineIdle /\ CaptureIdle

InferArrayType ==
  /\ pc = "input"
  /\ outArrayType' = inferType(inArray, inOptions)
  /\ pc' = "done"
  /\ UNCHANGED <<inArray, inOptions>>
  /\ UNCHANGED <<sampleVars, statusVars, groupVars, cycleVars, serializeVars,
                 storageVars, machineVars, captureVars>>

NextArrays == InferArrayType

SpecArrays == InitArrays /\ [][NextArrays]_vars

(***************************************************************************)
(* Calls of the type generator on objects that may hold reference cycles   *)
(***************************************************************************)

MaxCalls == 2

\* The identities of the objects of the heap.
HeapIds == {1, 2}

HeapKeys == {"p", "q"}

\* The values of a field of an object of the heap: a number, or a
\* reference to an object of the heap.
HeapValues == {Num(1)} \cup {Ref(id) : id \in HeapIds}

\* The entries an object can have: every choice of distinct keys, in every
\* insertion order, with every value.
HeapObjects ==
  {e \in SeqsUpTo(HeapKeys \X HeapValues, Cardinality(HeapKeys)) :
     \A i, j \in 1..Len(e) : e[i][1] = e[j][1] => i = j}

\* What generateTypeFromJson is called on: an object of the heap, or an
\* array that holds one.
JsonInputs == {Ref(id) : id \in HeapIds} \cup {Arr(<<Ref(1)>>)}

\* What generateTypeFromSamples is called on: one object of the heap, or
\* each of the first two, in both orders.
SampleInputs ==
  {<<Ref(id)>> : id \in HeapIds} \cup {<<Ref(1), Ref(2)>>, <<Ref(2), Ref(1)>>}

InitCycles ==
  /\ pc = "calls"
  /\ heap \in [HeapIds -> HeapObjects]
  /\ visitedObjects = {} /\ calls = 0 /\ outcome = NoOutcome
  /\ SamplesIdle /\ StatusIdle /\ GroupsIdle /\ SerializeIdle /\ StorageIdle
  /\ ArraysIdle /\ MachineIdle /\ CaptureIdle

\* A call of generateTypeFromJson, with the default options.
CallGenerateTypeFromJson(json) ==
  /\ pc = "calls" /\ calls < MaxCalls
  /\ \E result \in {generateTypeFromJson(heap, json, "Root", DEFAULT_OPTIONS)} :
       /\ visitedObjects' = result.visited
       /\ outcome' = [call |-> "generateTypeFromJson", input |-> <<json>>,
                      threw |-> result.threw, text |-> result.text]
  /\ calls' = calls + 1
  /\ UNCHANGED <<pc, heap, sampleVars, statusVars, groupVars, serializeVars, storageVars,
                 arrayVars, machineVars, captureVars>>

\* A call of generateTypeFromSamples, with the options of updateTypeDefinition.
CallGenerateTypeFromSamples(samples) ==
  /\ pc = "calls" /\ calls < MaxCalls
  /\ \E result \in {generateTypeFromHeapSamples(heap, visitedObjects, samples, "Root",
                                                 RouteTypeOptions)} :
       outcome' = [call |-> "generateTypeFromSamples", input |-> samples,
                   threw |-> result.threw, text |-> result.text]
  /\ calls' = calls + 1
  /\ UNCHANGED <<pc, heap, visitedObjects, sampleVars, statusVars, groupVars,
                 serializeVars, storageVars,
                 arrayVars, machineVars, captureVars>>

NextCycles ==
  \/ \E json \in JsonInputs : CallGenerateTypeFromJson(json)
  \/ \E samples \in SampleInputs : CallGenerateTypeFromSamples(samples)

SpecCycles == InitCycles /\ [][NextCycles]_vars

(***************************************************************************)
(* The background script: message handlers, captures, type regeneration    *)
(*                                                                         *)
(* A handler runs to completion. A call of regenerateAllTypes is suspended *)
(* only at await formatCode; while a call can still run (its phase is    *)
(* "loop") no message, capture or timer is handled, because the steps that *)
(* follow an await of a settled promise are microtasks.                    *)
(***************************************************************************)

MaxEvents == 3

\* The names ADD_ROUTE is given: a plain one, and one of the form
\* generateRouteName gives a path with an id segment.
RouteNames == {"users", "GET Users :id"}

\* The responses captured: <<body, status code>>
CapturedResponses == {<<ResponseA, Num(200)>>, <<ResponseB, Num(404)>>}

\* The sampleLimit UPDATE_SETTINGS is sent: none, and one below the least.
SampleLimits == {Undefined, Num(0)}

NoPending == [routeId |-> ""]

\* The requests recorded for a route.
RequestsOfRoute(requests, routeId) ==
  LET Mine(req) == req.routeId = routeId
  IN  SelectSeq(requests, Mine)

\* The entries of settled that stand with these requests: a route leaves
\* settled as soon as its recorded requests change.
StillSettled(entries, requests) ==
  {e \in entries : RequestsOfRoute(requests, e.routeId) = e.requests}

\* No call of regenerateAllTypes can run: each is suspended at formatCode.
NoRunnable == \A g \in 1..Len(regenerations) : regenerations[g].phase = "format"

\* The array for (const route of state.routes) iterates: state.routes
\* itself as long as the handlers have not replaced it, else the array it
\* was when the loop began.
regenRoutes(g) ==
  IF regenerations[g].live THEN state_routes ELSE regenerations[g].routes

\* The loops over an array that DELETE_ROUTE or CLEAR_ALL replaces go on
\* over the old array.
detachLoops(regens, oldRoutes) ==
  [g \in 1..Len(regens) |->
     IF regens[g].live THEN [regens[g] EXCEPT !.live = FALSE, !.routes = oldRoutes]
     ELSE regens[g]]

removeAt(arr, i) == SubSeq(arr, 1, i - 1) \o SubSeq(arr, i + 1, Len(arr))

\* The recorded requests of a route with a longer history than the window of
\* updateTypeDefinition: the response of the n-th request carries n, the
\* oldest request is the only redirect, and the others are of three classes.
LongHistory ==
  [n \in 1..(RecentWindow + 1) |->
     RecordedRequest("r1", Obj(<< <<"id", Num(n)>> >>),
                     IF n = 1 THEN Num(302)
                     ELSE IF n % 3 = 0 THEN Num(404)
                     ELSE IF n % 5 = 0 THEN Num(500) ELSE Num(200))]

\* The GeneratedType updateTypeDefinition stores for a route with these
\* recorded requests, when formatCode resolves.
storedTypeOf(route, requests, lastUpdated) ==
  LET routeRequests == routeWindow(route, requests)
      groups == buildGroupedSamples(routeRequests)
      baseName == toTypeBaseName(route.name)
  IN  generatedType(route.id, route.name, baseName,
                    formatCode(join(groupedDefinitions(baseName, groups), "\n\n")),
                    Len(routeRequests), lastUpdated,
                    buildRouteTypeSignature(route.id, groups))

\* What browser.storage.local may hold when the background script starts:
\* nothing, a route with one recorded request, a route with more recorded
\* requests than the window takes, or a route with a type and no recorded
\* request left (the requests of another route, deleted since, have pushed
\* them out of the log).
PersistedStorage ==
  {[routes |-> <<>>, requests |-> <<>>, types |-> <<>>],
   [routes |-> <<ApiRoute("r1", "users")>>,
    requests |-> <<RecordedRequest("r1", ResponseA, Num(200))>>,
    types |-> <<>>],
   [routes |-> <<ApiRoute("r1", "users")>>,
    requests |-> LongHistory,
    types |-> <<>>],
   [routes |-> <<ApiRoute("r1", "users")>>,
    requests |-> <<>>,
    types |-> <<storedTypeOf(ApiRoute("r1", "users"),
                             <<RecordedRequest("r1", ResponseA, Num(200))>>, 0)>>]}

\* normalizeSampleLimit, on no number and on whole numbers.
normalizeSampleLimit(value) ==
  IF value.k # "num" THEN DEFAULT_SAMPLE_LIMIT
  ELSE IF value.v < 1 THEN 1 ELSE value.v

\* The body of flushDirtyKeys from the test of dirtyKeys.size on: nothing
\* for no dirty key, else one more write at the end of storageWriteChain.
\* The payload refers to the arrays of state (live: the keys whose array is
\* still the one state holds) and carries the number sampleLimit.
flushDirtyKeys(chain, keys, sampleLimit) ==
  IF keys = {} THEN chain
  ELSE Append(chain,
              [keys |-> keys, live |-> keys \ {"sampleLimit"}, issued |-> FALSE,
               routes |-> <<>>, requests |-> <<>>, types |-> <<>>,
               sampleLimit |-> sampleLimit])

\* The writes whose browser.storage.local.set is called when each write is
\* handed to storage as soon as its flush begins.
setCalledAtOnce(chain) == 1..Len(chain)

\* The writes whose browser.storage.local.set has been called: the callback
\* of storageWriteChain.then runs when every write before it has settled.
setCalled(chain) == IF chain = <<>> THEN {} ELSE {1}

\* browser.storage.local.set(payload) takes the content the arrays of the
\* payload have when it is called.
serialized(write, current) ==
  [write EXCEPT !.issued = TRUE, !.live = {},
                !.routes = IF "routes" \in write.live THEN current.routes ELSE @,
                !.requests = IF "requests" \in write.live THEN current.requests ELSE @,
                !.types = IF "types" \in write.live THEN current.types ELSE @]

\* The chain after the microtasks that follow a handler: set is called for
\* the writes whose turn has come.
callSet(chain, current) ==
  [w \in 1..Len(chain) |->
     IF w \in setCalled(chain) /\ ~chain[w].issued
     THEN serialized(chain[w], current) ELSE chain[w]]

\* state.routes, state.requests or state.types is assigned a new array: a
\* payload that waits in the chain keeps the array it was built with.
detachPayloads(chain, replaced, old) ==
  [w \in 1..Len(chain) |->
     [chain[w] EXCEPT
        !.live = chain[w].live \ replaced,
        !.routes = IF "routes" \in chain[w].live \cap replaced THEN old.routes ELSE @,
        !.requests = IF "requests" \in chain[w].live \cap replaced THEN old.requests ELSE @,
        !.types = IF "types" \in chain[w].live \cap replaced THEN old.types ELSE @]]

\* What storage holds after a write has been applied.
applyWrite(stored, write) ==
  StorageOf(IF "routes" \in write.keys THEN write.routes ELSE stored.routes,
            IF "requests" \in write.keys THEN write.requests ELSE stored.requests,
            IF "types" \in write.keys THEN write.types ELSE stored.types,
            IF "sampleLimit" \in write.keys THEN write.sampleLimit ELSE stored.sampleLimit)

\* state, as initStorage and the handlers see it
CurrentState == StorageOf(state_routes, state_requests, state_types, state_sampleLimit)

\* The state initStorage leaves: the arrays of the storage.
Init ==
  /\ pc = "machine"
  /\ SamplesIdle /\ StatusIdle /\ GroupsIdle /\ CyclesIdle /\ SerializeIdle
  /\ StorageIdle /\ ArraysIdle /\ CaptureIdle
  /\ \E data \in PersistedStorage :
       /\ state_routes = data.routes
       /\ state_requests = data.requests
       /\ state_types = data.types
       /\ nextRouteId = Len(data.routes) + 1
       /\ storage = StorageOf(data.routes, data.requests, data.types, DEFAULT_SAMPLE_LIMIT)
  /\ state_sampleLimit = DEFAULT_SAMPLE_LIMIT
  /\ storageWriteChain = <<>>
  /\ dirtyKeys = {} /\ storageFlushTimer = FALSE
  /\ regenerations = <<>>
  /\ clock = 1 /\ events = 0
  /\ settled = {} /\ lastCall = NoCall

\* ADD_ROUTE
AddRoute(name) ==
  /\ NoRunnable /\ events < MaxEvents
  /\ state_routes' = Append(state_routes, ApiRoute("r" \o ToString(nextRouteId), name))
  /\ nextRouteId' = nextRouteId + 1
  /\ dirtyKeys' = dirtyKeys \cup {"routes"}
  /\ storageFlushTimer' = TRUE
  /\ events' = events + 1
  /\ lastCall' = NoCall
  /\ UNCHANGED <<state_requests, state_types, regenerations, clock, settled>>
  /\ UNCHANGED flushVars
  /\ UNCHANGED pureVars

\* state.requests.push(recordedRequest) without the shift that follows it.
pushUncapped(requests, recordedRequest) == Append(requests, recordedRequest)

\* state.requests.push(recordedRequest), and state.requests.shift() when
\* the log has grown past MAX_REQUESTS.
pushRecordedRequest(requests, recordedRequest) ==
  LET pushed == Append(requests, recordedRequest)
  IN  IF Len(pushed) > MAX_REQUESTS THEN Tail(pushed) ELSE pushed

\* captureResponse for a route the onCompleted listener matched
CaptureResponse(i, captured) ==
  /\ NoRunnable /\ events < MaxEvents
  /\ i \in 1..Len(state_routes)
  /\ state_routes[i].enabled
  /\ IsTruthy(captured[1])
  /\ LET requests ==
           pushRecordedRequest(state_requests,
                               RecordedRequest(state_routes[i].id, captured[1], captured[2]))
     IN  /\ state_requests' = requests
         /\ settled' = StillSettled(settled, requests)
  /\ dirtyKeys' = dirtyKeys \cup {"requests"}
  /\ storageFlushTimer' = TRUE
  /\ events' = events + 1
  /\ lastCall' = NoCall
  /\ UNCHANGED <<state_routes, state_types, regenerations, nextRouteId, clock>>
  /\ UNCHANGED flushVars
  /\ UNCHANGED pureVars

\* routeIdsToDelete without the loop over state.routes
routeIdOnly(routes, routeId) == {routeId}

\* routeIdsToDelete of DELETE_ROUTE: the route and the routes whose parent
\* it is
routeIdsToDelete(routes, routeId) ==
  {routeId} \cup {routes[i].id : i \in {j \in 1..Len(routes) : routes[j].parentId = routeId}}

\* DELETE_ROUTE
DeleteRoute(routeId) ==
  /\ NoRunnable /\ events < MaxEvents
  /\ LET KeepRoute(route) == route.id \notin routeIdsToDelete(state_routes, routeId)
         KeepEntry(entry) == entry.routeId \notin routeIdsToDelete(state_routes, routeId)
         requests == SelectSeq(state_requests, KeepEntry)
     IN  /\ state_routes' = SelectSeq(state_routes, KeepRoute)
         /\ state_requests' = requests
         /\ state_types' = SelectSeq(state_types, KeepEntry)
         /\ settled' = StillSettled(settled, requests)
  /\ regenerations' = detachLoops(regenerations, state_routes)
  /\ storageWriteChain' =
       detachPayloads(storageWriteChain, {"routes", "requests", "types"}, CurrentState)
  /\ dirtyKeys' = dirtyKeys \cup {"routes", "requests", "types"}
  /\ storageFlushTimer' = TRUE
  /\ events' = events + 1
  /\ lastCall' = NoCall
  /\ UNCHANGED <<nextRouteId, clock, state_sampleLimit, storage>>
  /\ UNCHANGED pureVars

\* CLEAR_ALL: the three keys are marked dirty and flushed at once, which
\* empties dirtyKeys and leaves an armed timer armed.
ClearAll ==
  /\ NoRunnable /\ events < MaxEvents
  /\ state_routes' = <<>>
  /\ state_requests' = <<>>
  /\ state_types' = <<>>
  /\ settled' = StillSettled(settled, <<>>)
  /\ regenerations' = detachLoops(regenerations, state_routes)
  /\ dirtyKeys' = {}
  /\ storageWriteChain' =
       callSet(flushDirtyKeys(detachPayloads(storageWriteChain,
                                             {"routes", "requests", "types"}, CurrentState),
                              dirtyKeys \cup {"routes", "requests", "types"},
                              state_sampleLimit),
               StorageOf(<<>>, <<>>, <<>>, state_sampleLimit))
  /\ events' = events + 1
  /\ lastCall' = NoCall
  /\ UNCHANGED <<storageFlushTimer, nextRouteId, clock, state_sampleLimit, storage>>
  /\ UNCHANGED pureVars

\* TOGGLE_ROUTE: the route object is changed in place, so an array that
\* still holds it shows the change too.
ToggleRoute(routeId) ==
  /\ NoRunnable /\ events < MaxEvents
  /\ \E i \in 1..Len(state_routes) : state_routes[i].id = routeId
  /\ LET Toggled(routes) ==
           [i \in 1..Len(routes) |->
              IF routes[i].id = routeId
              THEN [routes[i] EXCEPT !.enabled = ~@] ELSE routes[i]]
     IN  /\ state_routes' = Toggled(state_routes)
         /\ regenerations' =
              [g \in 1..Len(regenerations) |->
                 [regenerations[g] EXCEPT !.routes = Toggled(@)]]
         /\ storageWriteChain' =
              [w \in 1..Len(storageWriteChain) |->
                 IF storageWriteChain[w].issued THEN storageWriteChain[w]
                 ELSE [storageWriteChain[w] EXCEPT !.routes = Toggled(@)]]
  /\ dirtyKeys' = dirtyKeys \cup {"routes"}
  /\ storageFlushTimer' = TRUE
  /\ events' = events + 1
  /\ lastCall' = NoCall
  /\ UNCHANGED <<state_requests, state_types, nextRouteId, clock, settled>>
  /\ UNCHANGED <<state_sampleLimit, storage>>
  /\ UNCHANGED pureVars

\* REGENERATE_TYPES or GET_RESULT_DATA: regenerateAllTypes is called.
StartRegenerate ==
  /\ NoRunnable /\ events < MaxEvents
  /\ regenerations' =
       Append(regenerations,
              [live |-> TRUE, routes |-> <<>>, index |-> 1, hasChanges |-> FALSE,
               phase |-> "loop", pending |-> NoPending])
  /\ events' = events + 1
  /\ lastCall' = NoCall
  /\ UNCHANGED <<state_routes, state_requests, state_types, dirtyKeys,
                 storageFlushTimer, nextRouteId, clock, settled>>
  /\ UNCHANGED flushVars
  /\ UNCHANGED pureVars

\* UPDATE_SETTINGS: sampleLimit is marked dirty and flushed at once.
UpdateSettings(value) ==
  /\ NoRunnable /\ events < MaxEvents
  /\ state_sampleLimit' = normalizeSampleLimit(value)
  /\ dirtyKeys' = {}
  /\ storageWriteChain' =
       callSet(flushDirtyKeys(storageWriteChain, dirtyKeys \cup {"sampleLimit"},
                              normalizeSampleLimit(value)),
               CurrentState)
  /\ events' = events + 1
  /\ lastCall' = NoCall
  /\ UNCHANGED <<state_routes, state_requests, state_types, storageFlushTimer,
                 regenerations, nextRouteId, clock, settled, storage>>
  /\ UNCHANGED pureVars

\* One turn of the loop of regenerateAllTypes: updateTypeDefinition from its
\* call to its return of false or to its await of formatCode.
UpdateTypeDefinition(g) ==
  /\ g \in 1..Len(regenerations)
  /\ regenerations[g].phase = "loop"
  /\ regenerations[g].index <= Len(regenRoutes(g))
  /\ \E route \in {regenRoutes(g)[regenerations[g].index]} :
     \E routeRequests \in {routeWindow(route, state_requests)} :
     \E groups \in {buildGroupedSamples(routeRequests)} :
     \E signature \in {IF Len(routeRequests) = 0 \/ Len(groups) = 0 THEN ""
                        ELSE buildRouteTypeSignature(route.id, groups)} :
     LET existing == findTypeIndex(state_types, route.id)
         returnsFalse ==
           \/ Len(routeRequests) = 0
           \/ Len(groups) = 0
           \/ existing > 0 /\ state_types[existing].signature = signature
         baseName == toTypeBaseName(route.name)
         mergedDefinitions == join(groupedDefinitions(baseName, groups), "\n\n")
         began == RequestsOfRoute(state_requests, route.id)
     IN  /\ regenerations' =
              [regenerations EXCEPT ![g] =
                 IF returnsFalse THEN [@ EXCEPT !.index = @ + 1]
                 ELSE [@ EXCEPT !.phase = "format",
                                !.pending =
                                  [routeId |-> route.id, routeName |-> route.name,
                                   baseName |-> baseName,
                                   mergedDefinitions |-> mergedDefinitions,
                                   rejects |-> formatCodeRejects(mergedDefinitions),
                                   groups |-> groups,
                                   sampleCount |-> Len(routeRequests),
                                   signature |-> signature, began |-> began]]]
         /\ settled' =
              IF returnsFalse
              THEN {e \in settled : e.routeId # route.id}
                     \cup {[routeId |-> route.id, requests |-> began]}
              ELSE settled
         /\ lastCall' =
              [routeId |-> route.id,
               settled |-> \E e \in settled : e.routeId = route.id,
               result |-> IF returnsFalse THEN "false" ELSE "suspended"]
  /\ UNCHANGED <<state_routes, state_requests, state_types, dirtyKeys,
                 storageFlushTimer, nextRouteId, clock, events>>
  /\ UNCHANGED flushVars
  /\ UNCHANGED pureVars

\* formatCode resolves (what its promise does is settled by the text it was
\* called with): updateTypeDefinition stores the type and returns true, and
\* the loop goes on.
FormatDone(g) ==
  /\ g \in 1..Len(regenerations)
  /\ regenerations[g].phase = "format"
  /\ ~regenerations[g].pending.rejects
  /\ LET pending == regenerations[g].pending
         generated ==
           generatedType(pending.routeId, pending.routeName, pending.baseName,
                         formatCode(pending.mergedDefinitions), pending.sampleCount,
                         clock, pending.signature)
         others == {e \in settled : e.routeId # pending.routeId}
     IN  /\ state_types' = storeType(state_types, generated)
         /\ settled' =
              IF RequestsOfRoute(state_requests, pending.routeId) = pending.began
              THEN others \cup {[routeId |-> pending.routeId, requests |-> pending.began]}
              ELSE others
  /\ regenerations' =
       [regenerations EXCEPT ![g] =
          [@ EXCEPT !.phase = "loop", !.index = @ + 1, !.hasChanges = TRUE,
                    !.pending = NoPending]]
  /\ clock' = clock + 1
  /\ lastCall' = NoCall
  /\ UNCHANGED <<state_routes, state_requests, dirtyKeys, storageFlushTimer,
                 nextRouteId, events>>
  /\ UNCHANGED flushVars
  /\ UNCHANGED pureVars

\* formatCode rejects: updateTypeDefinition and regenerateAllTypes reject,
\* and the handler answers with the error.
FormatFails(g) ==
  /\ g \in 1..Len(regenerations)
  /\ regenerations[g].phase = "format"
  /\ regenerations[g].pending.rejects
  /\ regenerations' = removeAt(regenerations, g)
  /\ lastCall' = NoCall
  /\ UNCHANGED <<state_routes, state_requests, state_types, dirtyKeys,
                 storageFlushTimer, nextRouteId, clock, events, settled>>
  /\ UNCHANGED flushVars
  /\ UNCHANGED pureVars

\* The loop of regenerateAllTypes is over: the types are flushed at once
\* when a call of updateTypeDefinition returned true.
RegenerateDone(g) ==
  /\ g \in 1..Len(regenerations)
  /\ regenerations[g].phase = "loop"
  /\ regenerations[g].index > Len(regenRoutes(g))
  /\ dirtyKeys' = IF regenerations[g].hasChanges THEN {} ELSE dirtyKeys
  /\ storageWriteChain' =
       IF regenerations[g].hasChanges
       THEN callSet(flushDirtyKeys(storageWriteChain, dirtyKeys \cup {"types"},
                                   state_sampleLimit),
                    CurrentState)
       ELSE storageWriteChain
  /\ regenerations' = removeAt(regenerations, g)
  /\ lastCall' = NoCall
  /\ UNCHANGED <<state_routes, state_requests, state_types, storageFlushTimer,
                 nextRouteId, clock, events, settled, state_sampleLimit, storage>>
  /\ UNCHANGED pureVars

\* The flush timer fires: flushDirtyKeys hands the dirty keys to storage.
FlushTimer ==
  /\ NoRunnable
  /\ storageFlushTimer
  /\ storageFlushTimer' = FALSE
  /\ dirtyKeys' = {}
  /\ storageWriteChain' =
       callSet(flushDirtyKeys(storageWriteChain, dirtyKeys, state_sampleLimit),
               CurrentState)
  /\ lastCall' = NoCall
  /\ UNCHANGED <<state_routes, state_requests, state_types, regenerations,
                 nextRouteId, clock, events, settled, state_sampleLimit, storage>>
  /\ UNCHANGED pureVars

\* browser.storage.local.set resolves for a write it was called with: the
\* payload is stored, and set is called for the write whose turn it is now.
WriteResolves(w) ==
  /\ NoRunnable
  /\ w \in 1..Len(storageWriteChain)
  /\ storageWriteChain[w].issued
  /\ storage' = applyWrite(storage, storageWriteChain[w])
  /\ storageWriteChain' = callSet(removeAt(storageWriteChain, w), CurrentState)
  /\ lastCall' = NoCall
  /\ UNCHANGED <<state_routes, state_requests, state_types, dirtyKeys,
                 storageFlushTimer, regenerations, nextRouteId, clock, events,
                 settled, state_sampleLimit>>
  /\ UNCHANGED pureVars

\* browser.storage.local.set rejects: the catch of flushDirtyKeys logs the
\* error and the chain goes on with the write whose turn it is now. A
\* failure of the storage counts as an event.
WriteRejects(w) ==
  /\ NoRunnable /\ events < MaxEvents
  /\ events' = events + 1
  /\ w \in 1..Len(storageWriteChain)
  /\ storageWriteChain[w].issued
  /\ storageWriteChain' = callSet(removeAt(storageWriteChain, w), CurrentState)
  /\ lastCall' = NoCall
  /\ UNCHANGED <<state_routes, state_requests, state_types, dirtyKeys,
                 storageFlushTimer, regenerations, nextRouteId, clock,
                 settled, state_sampleLimit, storage>>
  /\ UNCHANGED pureVars

Next ==
  \/ \E name \in RouteNames : AddRoute(name)
  \/ \E i \in 1..Len(state_routes) : \E captured \in CapturedResponses :
       CaptureResponse(i, captured)
  \/ \E i \in 1..Len(state_routes) : DeleteRoute(state_routes[i].id)
  \/ ClearAll
  \/ \E i \in 1..Len(state_routes) : ToggleRoute(state_routes[i].id)
  \/ StartRegenerate
  \/ \E g \in 1..Len(regenerations) : UpdateTypeDefinition(g)
  \/ \E g \in 1..Len(regenerations) : FormatDone(g)
  \/ \E g \in 1..Len(regenerations) : FormatFails(g)
  \/ \E g \in 1..Len(regenerations) : RegenerateDone(g)
  \/ FlushTimer
  \/ \E value \in SampleLimits : UpdateSettings(value)
  \/ \E w \in 1..Len(storageWriteChain) : WriteResolves(w)
  \/ \E w \in 1..Len(storageWriteChain) : WriteRejects(w)

Spec == Init /\ [][Next]_vars

\* The steps of the script when no write to storage fails.
NextLive ==
  \/ \E name \in RouteNames : AddRoute(name)
  \/ \E i \in 1..Len(state_routes) : \E captured \in CapturedResponses :
       CaptureResponse(i, captured)
  \/ \E i \in 1..Len(state_routes) : DeleteRoute(state_routes[i].id)
  \/ ClearAll
  \/ \E i \in 1..Len(state_routes) : ToggleRoute(state_routes[i].id)
  \/ StartRegenerate
  \/ \E g \in 1..Len(regenerations) : UpdateTypeDefinition(g)
  \/ \E g \in 1..Len(regenerations) : FormatDone(g)
  \/ \E g \in 1..Len(regenerations) : FormatFails(g)
  \/ \E g \in 1..Len(regenerations) : RegenerateDone(g)
  \/ FlushTimer
  \/ \E value \in SampleLimits : UpdateSettings(value)
  \/ \E w \in 1..Len(storageWriteChain) : WriteResolves(w)

\* A call of regenerateAllTypes goes one step on: a turn of its loop, the
\* promise of formatCode settling, or its return.
RegenerationStep == regenerations' # regenerations /\ events' = events

\* The script with its scheduling: an armed timer fires, a write that set
\* was called with settles, and as long as a call of regenerateAllTypes has
\* not returned one of them goes a step on (its microtasks run, and the
\* promise of formatCode settles).
SpecLive ==
  /\ Init /\ [][NextLive]_vars
  /\ WF_vars(FlushTimer)
  /\ WF_vars(\E w \in 1..Len(storageWriteChain) : WriteResolves(w))
  /\ ([]<>(regenerations = <<>>) \/ []<><<RegenerationStep>>_vars)

(***************************************************************************)
(* The storage-backed background script: every handler reads its list     *)
(* from browser.storage.local, changes it and writes it back. A handler    *)
(* is suspended at each await; a get takes its snapshot, and a set writes  *)
(* its list, at the step that resumes the handler.                         *)
(***************************************************************************)

\* The onCompleted handlers that run: one for each of two requests.
Handlers == {1, 2}

\* The routes in storage: both enabled, with patterns that match one URL each.
StoredRoutes == <<ApiRoute("r1", "users"), ApiRoute("r2", "posts")>>

\* The types a GeneratedType of this script has: no signature.
storedGeneratedType(route, typeName, typeDefinition, sampleCount, lastUpdated) ==
  [routeId |-> route.id, routeName |-> route.name, typeName |-> typeName,
   typeDefinition |-> typeDefinition, sampleCount |-> sampleCount,
   lastUpdated |-> lastUpdated]

\* What storage holds when the requests complete: nothing recorded yet, or
\* one request of the first route and its type.
StoredData ==
  {[requests |-> <<>>, types |-> <<>>],
   [requests |-> <<RecordedRequest("r1", ResponseA, Num(200))>>,
    types |-> <<storedGeneratedType(StoredRoutes[1], "UsersResponse",
                                    formatCode(generateTypeFromSamples(<<ResponseA>>,
                                                 "UsersResponse", RouteTypeOptions)),
                                    1, 0)>>]}

IdleHandler ==
  [pc |-> "idle", route |-> 0, recorded |-> <<>>, requests |-> <<>>,
   typeDefinition |-> "", sampleCount |-> 0, generated |-> <<>>, types |-> <<>>]

InitStorage ==
  /\ pc = "storage"
  /\ \E data \in StoredData :
       storage_requests = data.requests /\ storage_types = data.types
  /\ handlers = [h \in Handlers |-> IdleHandler]
  /\ SamplesIdle /\ StatusIdle /\ GroupsIdle /\ CyclesIdle /\ SerializeIdle
  /\ ArraysIdle /\ MachineIdle /\ CaptureIdle

\* onCompleted for a request whose URL matches the n-th route: the handler
\* runs up to await browser.storage.local.get('routes').
OnCompleted(h, n) ==
  /\ pc = "storage" /\ handlers[h].pc = "idle"
  /\ handlers' = [handlers EXCEPT ![h] = [@ EXCEPT !.pc = "getRoutes", !.route = n]]
  /\ UNCHANGED <<storage_requests, storage_types>>
  /\ UNCHANGED <<pc, sampleVars, statusVars, groupVars, cycleVars,
                 serializeVars, arrayVars,
                 machineVars, captureVars>>

\* The routes arrive: the route is matched and captureResponse runs up to
\* await browser.storage.local.get('requests'). The body of the response
\* of the h-th request carries h.
RoutesRead(h) ==
  /\ pc = "storage" /\ handlers[h].pc = "getRoutes"
  /\ \E matchedRoute \in {StoredRoutes[handlers[h].route]} :
     \E json \in {Obj(<< <<"id", Num(h)>> >>)} :
       handlers' =
         [handlers EXCEPT ![h] =
            IF matchedRoute.enabled /\ IsTruthy(json)
            THEN [@ EXCEPT !.pc = "getRequests",
                           !.recorded = <<RecordedRequest(matchedRoute.id, json, Num(200))>>]
            ELSE [@ EXCEPT !.pc = "done"]]
  /\ UNCHANGED <<storage_requests, storage_types>>
  /\ UNCHANGED <<pc, sampleVars, statusVars, groupVars, cycleVars,
                 serializeVars, arrayVars,
                 machineVars, captureVars>>

\* The requests arrive: the request is pushed on the list read, the list
\* is cut to 100, and the handler awaits browser.storage.local.set.
RequestsRead(h) ==
  /\ pc = "storage" /\ handlers[h].pc = "getRequests"
  /\ handlers' =
       [handlers EXCEPT ![h] =
          [@ EXCEPT !.pc = "setRequests",
                    !.requests = pushRecordedRequest(storage_requests,
                                                    handlers[h].recorded[1])]]
  /\ UNCHANGED <<storage_requests, storage_types>>
  /\ UNCHANGED <<pc, sampleVars, statusVars, groupVars, cycleVars,
                 serializeVars, arrayVars,
                 machineVars, captureVars>>

\* The list is written: updateTypeDefinition runs on the list the handler
\* holds, up to await formatCode.
RequestsWritten(h) ==
  /\ pc = "storage" /\ handlers[h].pc = "setRequests"
  /\ storage_requests' = handlers[h].requests
  /\ \E route \in {StoredRoutes[handlers[h].route]} :
     \E routeRequests \in {routeWindow(route, handlers[h].requests)} :
       LET samples == [i \in 1..Len(routeRequests) |-> routeRequests[i].response]
           typeName == generateTypeName(route.name)
       IN  handlers' =
             [handlers EXCEPT ![h] =
                IF Len(routeRequests) = 0 THEN [@ EXCEPT !.pc = "done"]
                ELSE [@ EXCEPT !.pc = "format",
                               !.typeDefinition =
                                 generateTypeFromSamples(samples, typeName, RouteTypeOptions),
                               !.sampleCount = Len(routeRequests)]]
  /\ UNCHANGED storage_types
  /\ UNCHANGED <<pc, sampleVars, statusVars, groupVars, cycleVars,
                 serializeVars, arrayVars,
                 machineVars, captureVars>>

\* formatCode settles: the GeneratedType is built and the handler awaits
\* browser.storage.local.get('types'); when formatCode rejects, the catch
\* of captureResponse logs the error and the handler ends.
Formatted(h) ==
  /\ pc = "storage" /\ handlers[h].pc = "format"
  /\ \E route \in {StoredRoutes[handlers[h].route]} :
       handlers' =
         [handlers EXCEPT ![h] =
            IF formatCodeRejects(handlers[h].typeDefinition) THEN [@ EXCEPT !.pc = "done"]
            ELSE [@ EXCEPT !.pc = "getTypes",
                           !.generated =
                             <<storedGeneratedType(route, generateTypeName(route.name),
                                                   formatCode(handlers[h].typeDefinition),
                                                   handlers[h].sampleCount, clock)>>]]
  /\ UNCHANGED <<storage_requests, storage_types>>
  /\ UNCHANGED <<pc, sampleVars, statusVars, groupVars, cycleVars,
                 serializeVars, arrayVars,
                 machineVars, captureVars>>

\* The types arrive: the type of the route is replaced or pushed on the
\* list read, and the handler awaits browser.storage.local.set.
TypesRead(h) ==
  /\ pc = "storage" /\ handlers[h].pc = "getTypes"
  /\ handlers' =
       [handlers EXCEPT ![h] =
          [@ EXCEPT !.pc = "setTypes",
                    !.types = storeType(storage_types, handlers[h].generated[1])]]
  /\ UNCHANGED <<storage_requests, storage_types>>
  /\ UNCHANGED <<pc, sampleVars, statusVars, groupVars, cycleVars,
                 serializeVars, arrayVars,
                 machineVars, captureVars>>

\* The list of types is written, and the handler ends.
TypesWritten(h) ==
  /\ pc = "storage" /\ handlers[h].pc = "setTypes"
  /\ storage_types' = handlers[h].types
  /\ handlers' = [handlers EXCEPT ![h] = [@ EXCEPT !.pc = "done"]]
  /\ UNCHANGED storage_requests
  /\ UNCHANGED <<pc, sampleVars, statusVars, groupVars, cycleVars,
                 serializeVars, arrayVars,
                 machineVars, captureVars>>

NextStorage ==
  \/ \E h \in Handlers : \E n \in 1..Len(StoredRoutes) : OnCompleted(h, n)
  \/ \E h \in Handlers : RoutesRead(h)
  \/ \E h \in Handlers : RequestsRead(h)
  \/ \E h \in Handlers : RequestsWritten(h)
  \/ \E h \in Handlers : Formatted(h)
  \/ \E h \in Handlers : TypesRead(h)
  \/ \E h \in Handlers : TypesWritten(h)

SpecStorage == InitStorage /\ [][NextStorage]_vars

(***************************************************************************)
(* The request log over a long run of captures                             *)
(***************************************************************************)

\* The number of responses captured in a run: past MAX_REQUESTS.
MaxCaptures == 103

\* One route, and nothing recorded yet.
InitLog ==
  /\ pc = "log"
  /\ SamplesIdle /\ StatusIdle /\ GroupsIdle /\ CyclesIdle /\ SerializeIdle
  /\ StorageIdle /\ ArraysIdle /\ CaptureIdle
  /\ state_routes = <<ApiRoute("r1", "users")>>
  /\ state_requests = <<>> /\ state_types = <<>>
  /\ dirtyKeys = {} /\ storageFlushTimer = FALSE
  /\ regenerations = <<>>
  /\ nextRouteId = 2 /\ clock = 1 /\ events = 0
  /\ settled = {} /\ lastCall = NoCall
  /\ state_sampleLimit = DEFAULT_SAMPLE_LIMIT
  /\ storage = StorageOf(state_routes, <<>>, <<>>, DEFAULT_SAMPLE_LIMIT)
  /\ storageWriteChain = <<>>

\* captureResponse for the n-th response of the run, whose body carries n.
CaptureNext ==
  /\ pc = "log" /\ events < MaxCaptures
  /\ state_routes[1].enabled
  /\ \E json \in {Obj(<< <<"id", Num(events + 1)>> >>)} :
       /\ IsTruthy(json)
       /\ state_requests' =
            pushRecordedRequest(state_requests,
                                RecordedRequest(state_routes[1].id, json, Num(200)))
  /\ dirtyKeys' = dirtyKeys \cup {"requests"}
  /\ storageFlushTimer' = TRUE
  /\ events' = events + 1
  /\ UNCHANGED <<state_routes, state_types, regenerations, nextRouteId, clock,
                 settled, lastCall>>
  /\ UNCHANGED flushVars
  /\ UNCHANGED pureVars

\* The responses follow each other within STORAGE_FLUSH_DELAY_MS: each
\* capture arms the timer anew before it has fired.
NextLog == CaptureNext

SpecLog == InitLog /\ [][NextLog]_vars

(***************************************************************************)
(* The web request listeners: onBeforeRequest, onHeadersReceived, the      *)
(* response filter's onstop and onCompleted                                *)
(***************************************************************************)

\* Map.set and Map.delete
cacheSet(cache, requestId, value) ==
  [id \in DOMAIN cache \cup {requestId} |-> IF id = requestId THEN value ELSE cache[id]]

cacheDelete(cache, requestId) == [id \in DOMAIN cache \ {requestId} |-> cache[id]]

\* cleanupRequestCache, for one of the three Maps
cleanupRequestCache(cache, requestId) == cacheDelete(cache, requestId)

FirstIndex(S) == IF S = {} THEN 0 ELSE CHOOSE i \in S : \A j \in S : i <= j

\* The first routes.find of onCompleted: the index of the first enabled
\* pattern route that matches, 0 when there is none.
findPatternRoute(routes, cleanUrl) ==
  FirstIndex({i \in 1..Len(routes) :
                /\ routes[i].enabled /\ routes[i].parentId = "" /\ ~routes[i].isAutoDetect
                /\ routes[i].pattern # ""
                /\ matchesPattern(cleanUrl, routes[i].pattern)})

\* The second routes.find of onCompleted: the first enabled auto-detect
\* route whose baseUrl the URL matches.
findAutoDetectRoute(routes, cleanUrl) ==
  FirstIndex({i \in 1..Len(routes) :
                /\ routes[i].enabled /\ routes[i].isAutoDetect /\ routes[i].baseUrl # ""
                /\ matchesBaseUrl(cleanUrl, routes[i].baseUrl)})

\* A lookup of the child route that finds none
findNoChildRoute(routes, parentId, method, path) == 0

\* The routes.find of a child route by parentId, method and path, in
\* onCompleted and in createChildRoute
findChildRoute(routes, parentId, method, path) ==
  FirstIndex({i \in 1..Len(routes) :
                routes[i].parentId = parentId /\ routes[i].method = method /\ routes[i].path = path})

\* The route an ADD_ROUTE message for auto-detection makes
autoDetectRoute(id, name, baseUrl) ==
  [ApiRoute(id, name) EXCEPT !.pattern = "", !.isAutoDetect = TRUE, !.baseUrl = baseUrl]

\* The route an ADD_ROUTE message with a pattern makes
patternRoute(id, name, pattern) == [ApiRoute(id, name) EXCEPT !.pattern = pattern]

\* state.routes after createChildRoute: the child route is pushed unless
\* one exists
createChildRoute(routes, parentRoute, path, method, id) ==
  IF findChildRoute(routes, parentRoute.id, method, path) > 0 THEN routes
  ELSE Append(routes,
              [id |-> id, pattern |-> "", name |-> generateRouteName(path, method),
               enabled |-> TRUE, isAutoDetect |-> FALSE, baseUrl |-> "",
               parentId |-> parentRoute.id, method |-> method, path |-> path])

\* matchedRoute when the pattern route is kept although an auto-detect
\* route matched
matchedPatternFirst(matched, child) == IF matched > 0 THEN matched ELSE child

\* matchedRoute of onCompleted, as an index into state.routes: the child
\* route when an auto-detect route matched (child > 0), else the pattern
\* route
matchedRoute(matched, child) == IF child > 0 THEN child ELSE matched

\* What onstop makes of the response text: nothing for an empty text or
\* one JSON.parse throws on, else the parsed value.
NotJson == [parses |-> FALSE, json |-> Undefined]
Parsed(json) == [parses |-> TRUE, json |-> json]

\* A web request as the listeners see it: the details, and the
\* content-type header and the body of its response.
WebRequest(method, url, tabId, requestBody, contentType, body) ==
  [method |-> method, url |-> url, tabId |-> tabId, statusCode |-> Num(200),
   requestBody |-> requestBody, contentType |-> contentType, body |-> body]

NoRequest == WebRequest("", "", 0, Undefined, "", NotJson)

WebRequests ==
  {WebRequest("GET", "https://api.test/users/1", 1, Undefined, "application/json", Parsed(ResponseA)),
   WebRequest("GET", "https://api.test/users/2?page=1", 1, Undefined, "application/json; charset=utf-8", Parsed(ResponseA)),
   WebRequest("POST", "https://api.test/users/1", 1, ResponseA, "", Parsed(ResponseA)),
   WebRequest("GET", "https://api.test/posts", 1, Undefined, "application/json", Parsed(ResponseA)),
   WebRequest("GET", "https://cdn.test/logo", 1, Undefined, "application/json", Parsed(ResponseA)),
   WebRequest("GET", "https://api.test/users/1", 1, Undefined, "text/html", Parsed(ResponseA)),
   WebRequest("GET", "https://api.test/users/1", 1, Undefined, "application/json", NotJson),
   WebRequest("OPTIONS", "https://api.test/users/1", -1, ResponseA, "application/json", Parsed(ResponseA))}

\* What browser.storage.local may hold when the background script starts
\* with auto-detection in use: two pattern routes and an auto-detect route,
\* without or with a child route that has a recorded request and a type.
CaptureRoutes ==
  <<patternRoute("r1", "users", "/users/:id"), patternRoute("r2", "api", "api.test"),
    autoDetectRoute("r3", "auto", "https://api.test/users")>>

CaptureChild ==
  createChildRoute(CaptureRoutes, CaptureRoutes[3], "/users/:id", "GET", "r4")[4]

CapturePersisted ==
  {[routes |-> CaptureRoutes, requests |-> <<>>, types |-> <<>>],
   [routes |-> Append(CaptureRoutes, CaptureChild),
    requests |-> <<RecordedRequest("r4", ResponseA, Num(200)),
                   RecordedRequest("r2", ResponseA, Num(200))>>,
    types |-> <<storedTypeOf(CaptureChild, <<RecordedRequest("r4", ResponseA, Num(200))>>, 0),
                storedTypeOf(CaptureRoutes[2], <<RecordedRequest("r2", ResponseA, Num(200))>>, 0)>>]}

InitCapture ==
  /\ pc = "capture"
  /\ SamplesIdle /\ StatusIdle /\ GroupsIdle /\ CyclesIdle /\ SerializeIdle
  /\ StorageIdle /\ ArraysIdle /\ CaptureIdle
  /\ \E data \in CapturePersisted :
       /\ state_routes = data.routes
       /\ state_requests = data.requests
       /\ state_types = data.types
       /\ nextRouteId = Len(data.routes) + 1
       /\ storage = StorageOf(data.routes, data.requests, data.types, DEFAULT_SAMPLE_LIMIT)
  /\ state_sampleLimit = DEFAULT_SAMPLE_LIMIT
  /\ storageWriteChain = <<>>
  /\ dirtyKeys = {} /\ storageFlushTimer = FALSE
  /\ regenerations = <<>>
  /\ clock = 1 /\ events = 0
  /\ settled = {} /\ lastCall = NoCall

captureRest ==
  <<pc, sampleVars, statusVars, groupVars, cycleVars, serializeVars, storageVars, arrayVars>>

IsTracked(details) == details.tabId # -1 /\ details.method \in TRACKED_METHODS

\* The number of requests that have begun and not completed
MaxOpen == 1

OpenRequests == {id \in 1..Len(webRequests) : webRequests[id].phase # "completed"}

\* The two onBeforeRequest listeners for a new request: the response filter
\* is set up for a tracked request of a tab, and a request body is kept
\* for any request that has one.
BeforeRequest(request) ==
  /\ events < MaxEvents
  /\ Cardinality(OpenRequests) < MaxOpen
  /\ events' = events + 1
  /\ webRequests' =
       Append(webRequests,
              [details |-> request, phase |-> "sent",
               filter |-> IF IsTracked(request) THEN "open" ELSE "none"])
  /\ requestBodies' =
       IF request.requestBody # Undefined
       THEN cacheSet(requestBodies, Len(webRequests) + 1, request.requestBody)
       ELSE requestBodies
  /\ UNCHANGED <<responseBodies, responseMeta>>
  /\ UNCHANGED <<state_routes, state_requests, state_types, dirtyKeys, storageFlushTimer,
                 regenerations, nextRouteId, clock, settled, lastCall, flushVars>>
  /\ UNCHANGED captureRest

\* onHeadersReceived
HeadersReceived(requestId) ==
  /\ requestId \in 1..Len(webRequests)
  /\ webRequests[requestId].phase = "sent"
  /\ webRequests' = [webRequests EXCEPT ![requestId].phase = "headers"]
  /\ responseMeta' =
       IF webRequests[requestId].details.contentType # ""
       THEN cacheSet(responseMeta, requestId, webRequests[requestId].details.contentType)
       ELSE responseMeta
  /\ UNCHANGED <<requestBodies, responseBodies>>
  /\ UNCHANGED machineVars
  /\ UNCHANGED captureRest

\* filter.onstop: the body of the response has passed the filter, which
\* happens after the headers have arrived and before or after onCompleted.
FilterStop(requestId) ==
  /\ requestId \in 1..Len(webRequests)
  /\ webRequests[requestId].phase # "sent"
  /\ webRequests[requestId].filter = "open"
  /\ webRequests' =
       [webRequests EXCEPT ![requestId].filter = "stopped",
                           ![requestId].details =
                             IF webRequests[requestId].phase = "completed" THEN NoRequest ELSE @]
  /\ responseBodies' =
       IF webRequests[requestId].details.body.parses
       THEN cacheSet(responseBodies, requestId, webRequests[requestId].details.body.json)
       ELSE responseBodies
  /\ UNCHANGED <<requestBodies, responseMeta>>
  /\ UNCHANGED machineVars
  /\ UNCHANGED captureRest

\* onCompleted, with createChildRoute, captureResponse and
\* cleanupRequestCache: the awaits of the handler are of promises that are
\* resolved already, so nothing else runs in between.
Completed(requestId) ==
  /\ requestId \in 1..Len(webRequests)
  /\ webRequests[requestId].phase = "headers"
  /\ LET details == webRequests[requestId].details
         cleanUrl == getBaseUrl(details.url)
         routes == state_routes
         matched == findPatternRoute(routes, cleanUrl)
         auto == IF IsTracked(details) THEN findAutoDetectRoute(routes, cleanUrl) ELSE 0
         normalizedPath == normalizePath(extractPath(cleanUrl))
         found == IF auto > 0
                  THEN findChildRoute(routes, routes[auto].id, details.method, normalizedPath)
                  ELSE 0
         created == auto > 0 /\ found = 0
         routesAfter ==
           IF created
           THEN createChildRoute(routes, routes[auto], normalizedPath, details.method,
                                 "r" \o ToString(nextRouteId))
           ELSE routes
         child == IF auto > 0
                  THEN findChildRoute(routesAfter, routes[auto].id, details.method, normalizedPath)
                  ELSE 0
         route == IF IsTracked(details) THEN matchedRoute(matched, child) ELSE 0
         contentType == IF requestId \in DOMAIN responseMeta THEN responseMeta[requestId] ELSE ""
         json == IF requestId \in DOMAIN responseBodies THEN responseBodies[requestId]
                 ELSE Undefined
         records ==
           /\ route > 0
           /\ IsTruthy(json)
           /\ contentType = "" \/ includes(contentType, "application/json")
         requests ==
           IF records
           THEN pushRecordedRequest(state_requests,
                                    RecordedRequest(routesAfter[route].id, json, details.statusCode))
           ELSE state_requests
     IN  /\ state_routes' = routesAfter
         /\ nextRouteId' = IF created THEN nextRouteId + 1 ELSE nextRouteId
         /\ state_requests' = requests
         /\ settled' = StillSettled(settled, requests)
         /\ dirtyKeys' = dirtyKeys \cup (IF created THEN {"routes"} ELSE {})
                                   \cup (IF records THEN {"requests"} ELSE {})
         /\ storageFlushTimer' = (storageFlushTimer \/ created \/ records)
  /\ requestBodies' = cleanupRequestCache(requestBodies, requestId)
  /\ responseBodies' = cleanupRequestCache(responseBodies, requestId)
  /\ responseMeta' = cleanupRequestCache(responseMeta, requestId)
  /\ webRequests' =
       [webRequests EXCEPT ![requestId].phase = "completed",
                           ![requestId].details =
                             IF webRequests[requestId].filter = "open" THEN @ ELSE NoRequest]
  /\ lastCall' = NoCall
  /\ UNCHANGED <<state_types, regenerations, clock, events, flushVars>>
  /\ UNCHANGED captureRest

NextCapture ==
  \/ \E request \in WebRequests : BeforeRequest(request)
  \/ \E requestId \in 1..Len(webRequests) : HeadersReceived(requestId)
  \/ \E requestId \in 1..Len(webRequests) : FilterStop(requestId)
  \/ \E requestId \in 1..Len(webRequests) : Completed(requestId)
  \/ \E i \in 1..Len(state_routes) : ToggleRoute(state_routes[i].id)
  \/ \E i \in 1..Len(state_routes) : DeleteRoute(state_routes[i].id)

SpecCapture == InitCapture /\ [][NextCapture]_vars

(***************************************************************************)
(* Reading a declaration text and a status code                            *)
(***************************************************************************)

LineBreaks(text) == {i \in 1..Len(text) : CharAt(text, i) = "\n"}

NthBreak(text, n) ==
  CHOOSE i \in LineBreaks(text) : Cardinality({j \in LineBreaks(text) : j < i}) = n - 1

\* The n-th line of the body of a declaration: the text between two breaks.
FieldLine(text, n) == SubSeq(text, NthBreak(text, n) + 1, NthBreak(text, n + 1) - 1)

\* The name a body line declares: what stands between the indentation and
\* the optional marker or the colon.
FieldName(line) ==
  LET stops == {i \in 1..Len(line) : CharAt(line, i) \in {":", "?"}}
      stop == CHOOSE i \in stops : \A j \in stops : i <= j
  IN  SubSeq(line, 3, stop - 1)

DeclaredFields(text) ==
  [n \in 1..(Cardinality(LineBreaks(text)) - 1) |-> FieldName(FieldLine(text, n))]

\* The name between "interface " and " {".
DeclaredName(text) ==
  LET braces == {i \in 1..Len(text) : CharAt(text, i) = "{"}
      brace == CHOOSE i \in braces : \A j \in braces : i <= j
  IN  SubSeq(text, Len("interface ") + 1, brace - 2)

HasErrorMarker(text) == endsWith(DeclaredName(text), "ErrorResponse")

\* The class of a status code, by the ranges of the status classes.
ClassOfCode(code) ==
  IF code = Undefined THEN "OTHER"
  ELSE IF code.v \in 200..299 THEN "SUCCESS_2XX"
  ELSE IF code.v \in 300..399 THEN "REDIRECT_3XX"
  ELSE IF code.v \in 400..499 THEN "CLIENT_ERROR_4XX"
  ELSE IF code.v \in 500..599 THEN "SERVER_ERROR_5XX"
  ELSE "OTHER"

CodeOrZero(code) == IF code = Undefined THEN 0 ELSE code.v

ClassRank ==
  "SUCCESS_2XX" :> 1 @@ "REDIRECT_3XX" :> 2 @@ "CLIENT_ERROR_4XX" :> 3
  @@ "SERVER_ERROR_5XX" :> 4 @@ "OTHER" :> 5

GroupRank(group) == 2 * ClassRank[group.bucket] + (IF group.isError THEN 1 ELSE 0)

ExpectedSuffix ==
  "SUCCESS_2XX" :> "Success2xx" @@ "REDIRECT_3XX" :> "Redirect3xx"
  @@ "CLIENT_ERROR_4XX" :> "ClientError4xx" @@ "SERVER_ERROR_5XX" :> "ServerError5xx"
  @@ "OTHER" :> "OtherStatus"

\* The requests of a window that fall in one (class, error flag) pair, in
\* their order in the window.
RequestsOfPair(requests, bucket, isError) ==
  LET InPair(req) == /\ ClassOfCode(req.statusCode) = bucket
                     /\ (CodeOrZero(req.statusCode) >= 400) = isError
  IN  SelectSeq(requests, InPair)

(***************************************************************************)
(* Properties of generateTypeFromSamples (SpecSamples)                     *)
(***************************************************************************)

\* C1: for a fixed list of samples, generateTypeFromSamples returns the same
\* declaration text for every order in which the samples are fed in.
SampleOrderDoesNotMatter ==
  pc = "done" =>
    outDefinition = generateTypeFromSamples(inSamples, "UsersResponse", RouteTypeOptions)

\* C2: the fields of a declaration returned by generateTypeFromSamples stand
\* in lexicographic order of their names.
FieldsInLexicographicOrder ==
  pc = "done" =>
    LET fields == DeclaredFields(outDefinition)
    IN  \A i, j \in 1..Len(fields) : i < j => StrLess(fields[i], fields[j])

(***************************************************************************)
(* Properties of getStatusBucket (SpecStatus)                              *)
(***************************************************************************)

\* C6: getStatusBucket maps 200-299 to 2xx, 300-399 to 3xx, 400-499 to 4xx,
\* 500-599 to 5xx, and every other input (missing, 0, below 100, 100-199,
\* 600 and above) to other.
BucketFollowsRanges ==
  pc = "done" =>
    /\ inStatusCode = Undefined => outBucket = "OTHER"
    /\ inStatusCode # Undefined =>
         LET n == inStatusCode.v
         IN  /\ n \in 200..299 => outBucket = "SUCCESS_2XX"
             /\ n \in 300..399 => outBucket = "REDIRECT_3XX"
             /\ n \in 400..499 => outBucket = "CLIENT_ERROR_4XX"
             /\ n \in 500..599 => outBucket = "SERVER_ERROR_5XX"
             /\ (n < 200 \/ n >= 600) => outBucket = "OTHER"

BucketFollowsRangesWitness ==
  pc = "done" /\ inStatusCode = Num(399) /\ outBucket = "REDIRECT_3XX"

(***************************************************************************)
(* Properties of the bucketing and of the declaration names (SpecGroups)   *)
(***************************************************************************)

\* C4: the groups of buildGroupedSamples stand in the class order 2xx, 3xx,
\* 4xx, 5xx, other, the non-error group of a class before its error group,
\* whatever the arrival order; there is one group for every (class, error
\* flag) pair observed in the window and none for any other pair.
GroupsInFixedOrder ==
  pc = "done" =>
    /\ \A i, j \in 1..Len(outGroups) :
         i < j => GroupRank(outGroups[i]) < GroupRank(outGroups[j])
    /\ {<<outGroups[i].bucket, outGroups[i].isError>> : i \in 1..Len(outGroups)}
         = {<<ClassOfCode(inArrival[k].statusCode),
              CodeOrZero(inArrival[k].statusCode) >= 400>> : k \in 1..Len(inArrival)}

GroupsInFixedOrderWitness ==
  /\ pc = "done"
  /\ Len(inArrival) = 3
  /\ inArrival[1].statusCode = Num(600)
  /\ inArrival[2].statusCode = Num(404)
  /\ inArrival[3].statusCode = Num(200)
  /\ Len(outGroups) = 3
  /\ outGroups[1].bucket = "SUCCESS_2XX"

\* C7: a group is an error group exactly when the status code of its
\* requests is at least 400, a missing code counting as 0: every group holds
\* the requests of its class and flag, 4xx and 5xx groups are error groups,
\* 2xx and 3xx groups are not, and the requests without a status code and
\* with status code 0 share the one non-error group of the class other.
ErrorFlagFromStatusCode ==
  pc = "done" =>
    /\ \A i \in 1..Len(outGroups) :
         LET group == outGroups[i]
         IN  /\ group.count
                  = Len(RequestsOfPair(inArrival, group.bucket, group.isError))
             /\ group.count > 0
             /\ group.bucket \in {"CLIENT_ERROR_4XX", "SERVER_ERROR_5XX"} => group.isError
             /\ group.bucket \in {"SUCCESS_2XX", "REDIRECT_3XX"} => ~group.isError
    /\ \A k \in 1..Len(inArrival) :
         inArrival[k].statusCode \in {Undefined, Num(0)} =>
           \E i \in 1..Len(outGroups) :
             /\ outGroups[i].bucket = "OTHER" /\ ~outGroups[i].isError
             /\ \A j \in 1..Len(outGroups) :
                  (outGroups[j].bucket = "OTHER" /\ ~outGroups[j].isError) => j = i

ErrorFlagFromStatusCodeWitness ==
  /\ pc = "done"
  /\ Len(inArrival) = 3
  /\ inArrival[1].statusCode = Undefined
  /\ inArrival[2].statusCode = Num(600)
  /\ inArrival[3].statusCode = Num(0)
  /\ Len(outGroups) = 2
  /\ outGroups[1].count = 2 /\ ~outGroups[1].isError
  /\ outGroups[2].count = 1 /\ outGroups[2].isError

\* C8 as stated: the status codes 200, 201, 404, 500 give exactly four
\* groups, in the order 2xx, 4xx (error), 5xx (error), with no 3xx group.
ExampleGivesFourGroups ==
  (pc = "done" /\ inRequests = ExampleWindow) =>
    /\ Len(outGroups) = 4
    /\ \A i \in 1..Len(outGroups) : outGroups[i].bucket # "REDIRECT_3XX"
    /\ \A i, j \in 1..Len(outGroups) :
         i < j => ClassRank[outGroups[i].bucket] <= ClassRank[outGroups[j].bucket]

\* C8 as amended: the status codes 200, 201, 404, 500 give exactly three
\* groups, in the order 2xx (holding both 200 and 201), 4xx (error),
\* 5xx (error), with no 3xx group.
ExampleGivesThreeGroups ==
  (pc = "done" /\ inRequests = ExampleWindow) =>
    /\ Len(outGroups) = 3
    /\ outGroups[1].bucket = "SUCCESS_2XX" /\ ~outGroups[1].isError
    /\ outGroups[1].count = 2
    /\ outGroups[2].bucket = "CLIENT_ERROR_4XX" /\ outGroups[2].isError
    /\ outGroups[2].count = 1
    /\ outGroups[3].bucket = "SERVER_ERROR_5XX" /\ outGroups[3].isError
    /\ outGroups[3].count = 1

ExampleGivesThreeGroupsWitness ==
  pc = "done" /\ inRequests = ExampleWindow /\ Len(outDefinitions) = Len(outGroups)

\* C9: the declaration of each group is named baseName + suffix of the class
\* + "Error" for an error group + "Response", the suffixes being Success2xx,
\* Redirect3xx, ClientError4xx, ServerError5xx and OtherStatus; there is one
\* declaration per group, in the order of the groups.
DeclarationNamesFollowGroups ==
  pc = "done" =>
    /\ Len(outDefinitions) = Len(outGroups)
    /\ \A i \in 1..Len(outGroups) :
         DeclaredName(outDefinitions[i])
           = "Users" \o ExpectedSuffix[outGroups[i].bucket]
               \o (IF outGroups[i].isError THEN "Error" ELSE "") \o "Response"

DeclarationNamesFollowGroupsWitness ==
  /\ pc = "done"
  /\ Len(inArrival) = 3
  /\ inArrival[1].statusCode = Num(500)
  /\ inArrival[2].statusCode = Num(302)
  /\ inArrival[3].statusCode = Num(201)
  /\ [i \in 1..Len(outDefinitions) |-> DeclaredName(outDefinitions[i])]
       = <<"UsersSuccess2xxResponse", "UsersRedirect3xxResponse",
           "UsersServerError5xxErrorResponse">>

\* C10 as stated: the Error marker stands in a declaration name only for
\* groups of the classes 4xx and 5xx; no declaration of the classes 2xx, 3xx
\* or other carries it.
ErrorMarkerOnlyFor4xx5xx ==
  pc = "done" =>
    \A i \in 1..Len(outDefinitions) :
      HasErrorMarker(outDefinitions[i]) =>
        outGroups[i].bucket \in {"CLIENT_ERROR_4XX", "SERVER_ERROR_5XX"}

\* C10 as amended: the declaration of the group of a request carries the
\* Error marker exactly when the status code of the request is at least 400:
\* always for the classes 4xx and 5xx, never for 2xx and 3xx, and in the
\* class other for the codes from 600 up and not for a missing code or a
\* code below 200.
ErrorMarkerFromStatusCode ==
  pc = "done" =>
    /\ Len(outDefinitions) = Len(outGroups)
    /\ \A k \in 1..Len(inArrival) :
         LET code == inArrival[k].statusCode
         IN  \E i \in 1..Len(outGroups) :
               /\ outGroups[i].bucket = ClassOfCode(code)
               /\ inArrival[k].response \in
                    {outGroups[i].samples[n] : n \in 1..Len(outGroups[i].samples)}
               /\ outGroups[i].count
                    = Len(RequestsOfPair(inArrival, ClassOfCode(code), CodeOrZero(code) >= 400))
               /\ HasErrorMarker(outDefinitions[i]) <=> CodeOrZero(code) >= 400

ErrorMarkerFromStatusCodeWitness ==
  /\ pc = "done"
  /\ Len(inArrival) = 2
  /\ inArrival[1].statusCode = Num(600)
  /\ inArrival[2].statusCode = Num(0)
  /\ [i \in 1..Len(outDefinitions) |-> DeclaredName(outDefinitions[i])]
       = <<"UsersOtherStatusResponse", "UsersOtherStatusErrorResponse">>

(***************************************************************************)
(* Properties of the signature (SpecSignature)                             *)
(***************************************************************************)

\* Two windows list the requests of every group in the same order.
SameOrderInsideGroups(a, b) ==
  \A bucket \in DOMAIN ClassRank : \A isError \in BOOLEAN :
    RequestsOfPair(a, bucket, isError) = RequestsOfPair(b, bucket, isError)

\* C5 as stated: two windows holding the same observations in different
\* arrival orders get the same signature.
SignatureIgnoresArrivalOrder ==
  pc = "done" =>
    outSignature = buildRouteTypeSignature(RouteId, buildGroupedSamples(inRequests))

\* C5 as amended: the signature does not depend on how the requests of
\* different groups are interleaved: two windows holding the same
\* observations, the requests of each (class, error flag) group in the same
\* order, get the same signature.
SignatureIgnoresInterleaving ==
  (pc = "done" /\ SameOrderInsideGroups(inRequests, inArrival)) =>
    outSignature = buildRouteTypeSignature(RouteId, buildGroupedSamples(inRequests))

SignatureIgnoresInterleavingWitness ==
  /\ pc = "done"
  /\ Len(inArrival) = 3
  /\ inArrival # inRequests
  /\ inArrival[1].statusCode = Num(404)
  /\ inRequests[1].statusCode = Num(200)
  /\ SameOrderInsideGroups(inRequests, inArrival)
  /\ Len(outGroups) = 2

(***************************************************************************)
(* Properties of type regeneration (Spec)                                  *)
(***************************************************************************)

Range(seq) == {seq[i] : i \in 1..Len(seq)}

\* How often a value stands in a sequence.
CountIn(seq, x) == Cardinality({i \in 1..Len(seq) : seq[i] = x})

RECURSIVE SumCounts(_)
\* The counts of the groups added up.
SumCounts(groups) ==
  IF groups = <<>> THEN 0 ELSE Head(groups).count + SumCounts(Tail(groups))

RECURSIVE AllSamples(_)
\* The samples of all groups.
AllSamples(groups) ==
  IF groups = <<>> THEN <<>> ELSE Head(groups).samples \o AllSamples(Tail(groups))

\* The smaller of two numbers.
Min(a, b) == IF a < b THEN a ELSE b

\* What a suspended call of updateTypeDefinition holds: its groups are made
\* of the last RecentWindow recorded responses of the route and of nothing
\* else, and its sampleCount is their number.
PendingHoldsRecentWindow(pending) ==
  LET HasResponse(req) == IsTruthy(req.response)
      recorded == SelectSeq(pending.began, HasResponse)
      fed == Min(RecentWindow, Len(recorded))
      recent == [i \in 1..fed |-> recorded[Len(recorded) - fed + i].response]
      samples == AllSamples(pending.groups)
  IN  /\ SumCounts(pending.groups) = fed
      /\ pending.sampleCount = fed
      /\ \A n \in 1..Len(pending.groups) :
           pending.groups[n].count = Len(pending.groups[n].samples)
      /\ \A x \in Range(samples) \cup Range(recent) :
           CountIn(samples, x) = CountIn(recent, x)
      /\ \A i \in 1..(Len(recorded) - fed) :
           CountIn(samples, recorded[i].response) = CountIn(recent, recorded[i].response)

\* C11: updateTypeDefinition buckets the last 10 recorded responses of the
\* route and no older one: the counts of the groups add up to the smaller of
\* 10 and the number of recorded requests of the route that have a response,
\* the samples of the groups are the responses of exactly those requests, and
\* the sampleCount that is stored with the type is that sum.
WindowCutBeforeBucketing ==
  [][/\ \A g \in 1..Len(regenerations') :
          regenerations'[g].phase = "format" =>
            PendingHoldsRecentWindow(regenerations'[g].pending)
     /\ \A i \in 1..Len(state_types') :
          state_types'[i] \notin Range(state_types) =>
            \E g \in 1..Len(regenerations) :
              /\ regenerations[g].phase = "format"
              /\ regenerations[g].pending.routeId = state_types'[i].routeId
              /\ regenerations[g].pending.signature = state_types'[i].signature
              /\ regenerations[g].pending.sampleCount = state_types'[i].sampleCount]_vars

WindowCutBeforeBucketingWitness ==
  /\ Len(RequestsOfRoute(state_requests, "r1")) > RecentWindow
  /\ \E i \in 1..Len(state_types) :
       /\ state_types[i].routeId = "r1"
       /\ state_types[i].sampleCount = RecentWindow

(***************************************************************************)
(* Properties of the rendered fields and unions (SpecSamples)              *)
(***************************************************************************)

\* Whether a body line carries the optional marker after the field name.
HasOptionalMarker(line) == CharAt(line, 3 + Len(FieldName(line))) = "?"

\* The type of a body line: what stands between ": " and the last ";".
FieldType(line) ==
  LET start == 3 + Len(FieldName(line)) + (IF HasOptionalMarker(line) THEN 1 ELSE 0) + 2
  IN  SubSeq(line, start, Len(line) - 1)

\* The fields of a declaration text, one for each line of its body: name,
\* optional marker and type.
FieldsOf(text) ==
  LET lines == splitLines(text)
  IN  [n \in 1..(Len(lines) - 2) |->
         LET line == lines[n + 1]
         IN  [name |-> FieldName(line), optional |-> HasOptionalMarker(line),
              type |-> FieldType(line)]]

\* The declared field of a name; the field is declared once.
FieldOf(fields, key) == fields[CHOOSE n \in 1..Len(fields) : fields[n].name = key]

\* How many brackets are open at a place of a type text.
OpenBefore(text, i) ==
  Cardinality({j \in 1..(i - 1) : CharAt(text, j) \in {"(", "{"}})
    - Cardinality({j \in 1..(i - 1) : CharAt(text, j) \in {")", "}"}})

RECURSIVE UnionMembers(_)
\* The members of a union text: the parts between the bars that stand
\* outside every bracket.
UnionMembers(text) ==
  LET bars == {i \in 1..(Len(text) - 2) :
                 SubSeq(text, i, i + 2) = " | " /\ OpenBefore(text, i) = 0}
  IN  IF bars = {} THEN <<text>>
      ELSE LET first == CHOOSE i \in bars : \A j \in bars : i <= j
           IN  <<SubSeq(text, 1, first - 1)>>
                 \o UnionMembers(SubSeq(text, first + 3, Len(text)))

\* The element union of an array type: (A | B)[] gives A | B, T[] gives T,
\* and a type that is no array type gives nothing.
ElementUnion(member) ==
  IF startsWith(member, "(") /\ endsWith(member, ")[]")
  THEN SubSeq(member, 2, Len(member) - 3)
  ELSE IF endsWith(member, "[]") THEN SubSeq(member, 1, Len(member) - 2)
  ELSE ""

\* The samples that carry a key, and the values they carry for it, in the
\* order of the samples.
Carries(sample, key) ==
  sample.k = "obj" /\ \E n \in 1..Len(sample.v) : sample.v[n][1] = key

ValueOf(sample, key) ==
  sample.v[CHOOSE n \in 1..Len(sample.v) : sample.v[n][1] = key][2]

CarriedKeys(samples) ==
  UNION {{samples[i].v[n][1] : n \in 1..Len(samples[i].v)} :
           i \in {j \in 1..Len(samples) : samples[j].k = "obj"}}

ValuesOfKey(samples, key) ==
  LET carriers == SelectSeq(samples, LAMBDA sample : Carries(sample, key))
  IN  [i \in 1..Len(carriers) |-> ValueOf(carriers[i], key)]

RECURSIVE Shape(_)
\* The structural type of a value: the field set of a record without the
\* order of its keys, the set of element types of an array.
Shape(value) ==
  CASE value.k = "obj" ->
         [t |-> "record",
          of |-> {<<value.v[n][1], Shape(value.v[n][2])>> : n \in 1..Len(value.v)}]
    [] value.k = "arr" ->
         [t |-> "array", of |-> {<<"", Shape(value.v[n])>> : n \in 1..Len(value.v)}]
    [] value.k = "str" ->
         [t |-> IF isDateString(value.v) THEN "date" ELSE "string", of |-> {}]
    [] OTHER -> [t |-> value.k, of |-> {}]

\* The tier of a union member: undefined last, null before it, every other
\* member first.
MemberTier(member) ==
  IF member = "undefined" THEN 2 ELSE IF member = "null" THEN 1 ELSE 0

\* The members of a union stand in the order of the tiers and, inside a
\* tier, in lexicographic order of their text.
InFixedOrder(members) ==
  \A i, j \in 1..Len(members) :
    i < j => \/ MemberTier(members[i]) < MemberTier(members[j])
             \/ /\ MemberTier(members[i]) = MemberTier(members[j])
                /\ StrLess(members[i], members[j])

\* The samples of the union example, and those of the optionality example.
UnionExample ==
  <<Obj(<< <<"a", Num(1)>> >>), Obj(<< <<"a", Str("x")>> >>), Obj(<< <<"a", Null>> >>)>>

OptionalityExample == <<Obj(<< <<"a", Num(1)>> >>), Obj(<<>>), Obj(<<>>)>>

\* C12: a field that holds null in at least one sample and another value in
\* at least one sample renders as its observed types other than null, each
\* once, followed by null; the samples [{a:1},{a:"x"},{a:null}] render field
\* a as number | string | null.
NullFollowsObservedTypes ==
  pc = "done" =>
    LET fields == FieldsOf(outDefinition) IN
    /\ \A key \in CarriedKeys(inFed) :
         LET values == ValuesOfKey(inFed, key)
             observed == {inferType(v, RouteTypeOptions) : v \in Range(values) \ {Null}}
             members == UnionMembers(FieldOf(fields, key).type)
         IN  (Null \in Range(values) /\ observed # {}) =>
               /\ members[Len(members)] = "null"
               /\ Len(members) = Cardinality(observed) + 1
               /\ {members[i] : i \in 1..(Len(members) - 1)} = observed
    /\ inFed = UnionExample =>
         FieldOf(fields, "a").type = "number | string | null"

NullFollowsObservedTypesWitness ==
  /\ pc = "done"
  /\ inFed = UnionExample
  /\ outDefinition = "interface UsersResponse {\n  a: number | string | null;\n}"

\* C13: a field that is null in at least one sample has null as a member of
\* its rendered type, also when null is the only value observed for it.
NullAlwaysRendered ==
  pc = "done" =>
    LET fields == FieldsOf(outDefinition) IN
    \A key \in CarriedKeys(inFed) :
      Null \in Range(ValuesOfKey(inFed, key)) =>
        "null" \in Range(UnionMembers(FieldOf(fields, key).type))

\* C14: a field that at least one sample lacks has undefined as a member of
\* its rendered type; the samples [{a:1},{}] render field a as
\* number | undefined.
AbsentRendersUndefined ==
  pc = "done" =>
    LET fields == FieldsOf(outDefinition) IN
    \A key \in CarriedKeys(inFed) :
      Len(ValuesOfKey(inFed, key)) < Len(inFed) =>
        "undefined" \in Range(UnionMembers(FieldOf(fields, key).type))

\* C15: the declared fields are the keys that at least one sample carries,
\* each declared once, and a field has the optional marker exactly when
\* fewer samples carry its key than samples were passed in.
OptionalMarkerIffAbsentSomewhere ==
  (pc = "done" /\ inFed # <<>>) =>
    LET fields == FieldsOf(outDefinition)
    IN  /\ {fields[n].name : n \in 1..Len(fields)} = CarriedKeys(inFed)
        /\ Len(fields) = Cardinality(CarriedKeys(inFed))
        /\ \A n \in 1..Len(fields) :
             fields[n].optional <=> Len(ValuesOfKey(inFed, fields[n].name)) < Len(inFed)

OptionalMarkerIffAbsentSomewhereWitness ==
  /\ pc = "done"
  /\ inFed = OptionalityExample
  /\ outDefinition = "interface UsersResponse {\n  a?: number;\n}"

\* C16: samples that are no objects (null, primitives, arrays) change
\* nothing: the declaration of a list of samples is the declaration of the
\* objects among them, with the same fields, types and optional markers.
NonObjectSamplesIgnored ==
  (pc = "done" /\ SelectSeq(inFed, IsPlainObject) # <<>>) =>
    outDefinition
      = generateTypeFromSamples(SelectSeq(inFed, IsPlainObject), "UsersResponse",
                                RouteTypeOptions)

\* C17: no rendered union holds two members that are structurally equal:
\* the union of a field has no more members than its values other than null
\* have structural types, and the element union of an array has no more
\* members than its elements have structural types.
NoStructuralDuplicates ==
  pc = "done" =>
    LET fields == FieldsOf(outDefinition) IN
    \A key \in CarriedKeys(inFed) :
      LET values == Range(ValuesOfKey(inFed, key)) \ {Null}
          members == UnionMembers(FieldOf(fields, key).type)
      IN  /\ values # {} =>
               Cardinality({i \in 1..Len(members) : members[i] # "null"})
                 <= Cardinality({Shape(v) : v \in values})
          /\ \A v \in values :
               (v.k = "arr" /\ v.v # <<>>) =>
                 Len(UnionMembers(ElementUnion(inferType(v, RouteTypeOptions))))
                   <= Cardinality({Shape(e) : e \in Range(v.v)})

\* C18: in every rendered union, of a field or of the elements of an array,
\* undefined stands last, null before it, and the other members before both
\* in lexicographic order of their text.
UnionMembersInFixedOrder ==
  pc = "done" =>
    LET fields == FieldsOf(outDefinition)
    IN  \A n \in 1..Len(fields) :
          LET members == UnionMembers(fields[n].type)
          IN  /\ InFixedOrder(members)
              /\ \A i \in 1..Len(members) :
                   InFixedOrder(UnionMembers(ElementUnion(members[i])))

(***************************************************************************)
(* Properties of the calls on objects with reference cycles (SpecCycles)   *)
(***************************************************************************)

\* The objects an object refers to in its fields.
RefsOf(objects, id) ==
  {objects[id][n][2].v : n \in {m \in 1..Len(objects[id]) : objects[id][m][2].k = "ref"}}

RECURSIVE ReachWithin(_, _, _, _)
\* The objects reached from a set of objects in at most a number of steps
\* that never enter an object of avoid.
ReachWithin(objects, from, avoid, steps) ==
  IF steps = 0 THEN from
  ELSE ReachWithin(objects,
                   from \cup (UNION {RefsOf(objects, id) : id \in from} \ avoid),
                   avoid, steps - 1)

Reach(objects, from, avoid) ==
  ReachWithin(objects, from \ avoid, avoid, Cardinality(DOMAIN objects))

\* Every reference cycle that can be reached from the root passes through
\* the root.
CyclesOnlyThrough(objects, root) ==
  \A id \in Reach(objects, {root}, {}) \ {root} :
    id \notin Reach(objects, RefsOf(objects, id), {root})

\* C19: generateTypeFromJson called on an object with a field that refers
\* back to the object returns (the recursion ends without exhausting the
\* stack), and the declaration it returns gives that field the
\* circular-reference sentinel type; the object's cycles are those through
\* the object itself.
SelfReferenceRendersSentinel ==
  \A root \in DOMAIN heap :
    (/\ outcome.call = "generateTypeFromJson"
     /\ outcome.input[1].k = "ref" /\ outcome.input[1].v = root
     /\ root \in RefsOf(heap, root)
     /\ CyclesOnlyThrough(heap, root)) =>
      /\ ~outcome.threw
      /\ LET fields == FieldsOf(outcome.text)
         IN  /\ Len(fields) = Len(heap[root])
             /\ \A n \in 1..Len(fields) :
                  /\ fields[n].name = heap[root][n][1]
                  /\ heap[root][n][2] = Ref(root) => fields[n].type = CircularSentinel

SelfReferenceRendersSentinelWitness ==
  /\ outcome.call = "generateTypeFromJson"
  /\ outcome.input = <<Ref(1)>>
  /\ heap[1] = << <<"p", Ref(1)>>, <<"q", Ref(2)>> >>
  /\ heap[2] = << <<"p", Ref(1)>> >>
  /\ ~outcome.threw
  /\ outcome.text
       = "interface Root {\n  p: any /* circular reference */;\n"
           \o "  q: { p: any /* circular reference */ };\n}"

\* C20: every call of generateTypeFromJson and of generateTypeFromSamples
\* on a finite structure returns, wherever a reference cycle sits in it:
\* through the root, among nested objects only, or inside a sample.
EveryCallReturns == outcome.call # "" => ~outcome.threw

\* What the last call returns when no call was made before it:
\* visitedObjects is as the module leaves it when it is loaded.
FirstCallOutcome ==
  IF outcome.call = "generateTypeFromJson"
  THEN generateTypeFromJson(heap, outcome.input[1], "Root", DEFAULT_OPTIONS)
  ELSE generateTypeFromHeapSamples(heap, {}, outcome.input, "Root", RouteTypeOptions)

\* C21: the text a call of generateTypeFromJson or generateTypeFromSamples
\* returns for an input is the text the same call returns when it is the
\* first call ever made, whatever calls were made before it, also when an
\* earlier call marked an object that is part of the later input.
GuardDoesNotLeakBetweenCalls ==
  outcome.call # "" =>
    /\ outcome.threw = FirstCallOutcome.threw
    /\ outcome.text = FirstCallOutcome.text

(***************************************************************************)
(* Properties of the serialization and of the hash (SpecSerialize)         *)
(***************************************************************************)

RECURSIVE SameUpToKeyOrder(_, _)
\* Two values hold the same content: the same keys with the same content
\* under each key, in whatever order the keys were inserted, and the same
\* content at each position of an array.
SameUpToKeyOrder(a, b) ==
  /\ a.k = b.k
  /\ CASE a.k = "obj" ->
            /\ Len(a.v) = Len(b.v)
            /\ \A i \in 1..Len(a.v) : \E j \in 1..Len(b.v) :
                 a.v[i][1] = b.v[j][1] /\ SameUpToKeyOrder(a.v[i][2], b.v[j][2])
       [] a.k = "arr" ->
            /\ Len(a.v) = Len(b.v)
            /\ \A i \in 1..Len(a.v) : SameUpToKeyOrder(a.v[i], b.v[i])
       [] OTHER -> a = b

\* C22: two values that differ only in the insertion order of the keys of
\* their mappings, at any nesting level, have the same serialization and
\* the same hash, and two values that differ in anything else, the
\* positions of different array elements included, have different
\* serializations.
SerializationFixesKeyOrderOnly ==
  pc = "done" =>
    /\ (outSerialized[1] = outSerialized[2]) <=> SameUpToKeyOrder(inValue, inVariant)
    /\ SameUpToKeyOrder(inValue, inVariant) => outHash[1] = outHash[2]

\* A mapping inside a mapping, the keys of both inserted in the other order.
SerializationFixesKeyOrderOnlyWitness ==
  /\ pc = "done"
  /\ inValue = Obj(<< <<"B", Obj(<< <<"B", Num(1)>>, <<"a", Null>> >>)>>, <<"a", Num(1)>> >>)
  /\ inVariant = Obj(<< <<"a", Num(1)>>, <<"B", Obj(<< <<"a", Null>>, <<"B", Num(1)>> >>)>> >>)
  /\ outSerialized[1] = "{\"a\":1,\"B\":{\"a\":null,\"B\":1}}"
  /\ outSerialized[2] = outSerialized[1]
  /\ outHash[1] = outHash[2]

(***************************************************************************)
(* Properties of the background script, continued (Spec)                   *)
(***************************************************************************)

\* The route has no recorded request with a response.
NothingRecordedFor(routeId) ==
  \A n \in 1..Len(state_requests) :
    state_requests[n].routeId = routeId => ~IsTruthy(state_requests[n].response)

\* C23: a call of updateTypeDefinition for a route that has no recorded
\* request with a response returns false (it never reaches formatCode, so
\* it stores nothing later either), and no entry of state.types changes:
\* neither the type stored for the route nor any other.
NoResponseLeavesTypes ==
  [][(lastCall'.routeId # "" /\ NothingRecordedFor(lastCall'.routeId)) =>
       /\ lastCall'.result = "false"
       /\ state_types' = state_types]_vars

\* The call was made for a route with a stored type and no recorded request.
NoResponseLeavesTypesWitness ==
  /\ lastCall.routeId # "" /\ lastCall.result = "false"
  /\ NothingRecordedFor(lastCall.routeId)
  /\ findTypeIndex(state_types, lastCall.routeId) > 0

\* C24: generateTypeFromSamples called with an empty list of samples
\* returns a declaration (no error is raised) whose body is the index
\* signature alone, open to any key, with no named field.
EmptySamplesGivePlaceholder ==
  (pc = "done" /\ outDefinition # "" /\ Len(inFed) = 0) =>
    LET lines == splitLines(outDefinition)
    IN  /\ Len(lines) = 3
        /\ lines[1] = "interface UsersResponse {"
        /\ lines[2] = "  [key: string]: any;"
        /\ lines[3] = "}"

EmptySamplesGivePlaceholderWitness ==
  /\ pc = "done" /\ inSamples = <<>> /\ inFed = <<>>
  /\ outDefinition = "interface UsersResponse {\n  [key: string]: any;\n}"

(***************************************************************************)
(* Properties of the request log (SpecLog)                                 *)
(***************************************************************************)

\* C25: starting from an empty log, the log never holds more than
\* MAX_REQUESTS (100) recorded requests; a capture puts its request at the
\* end, and when the log is full it drops the oldest request only, the
\* others keeping their order.
LogKeepsNewestHundred ==
  /\ [](Len(state_requests) <= MAX_REQUESTS)
  /\ [][state_requests' # state_requests =>
         LET kept == IF Len(state_requests) < MAX_REQUESTS
                     THEN state_requests ELSE Tail(state_requests)
         IN  /\ Len(state_requests') = Len(kept) + 1
             /\ SubSeq(state_requests', 1, Len(kept)) = kept
             /\ state_requests'[Len(kept) + 1].response = Obj(<< <<"id", Num(events')>> >>)]_vars

\* Two captures past the limit: the first two requests are gone.
LogKeepsNewestHundredWitness ==
  /\ pc = "log" /\ events = MAX_REQUESTS + 2
  /\ Len(state_requests) = MAX_REQUESTS
  /\ state_requests[1].response = Obj(<< <<"id", Num(3)>> >>)
  /\ state_requests[MAX_REQUESTS].response = Obj(<< <<"id", Num(MAX_REQUESTS + 2)>> >>)

(***************************************************************************)
(* Properties of overlapping runs of updateTypeDefinition (Spec)           *)
(***************************************************************************)

\* The signature updateTypeDefinition computes for a route from a log.
signatureOfWindow(route, requests) ==
  buildRouteTypeSignature(route.id, buildGroupedSamples(routeWindow(route, requests)))

\* The type stored for the route is the type of its most recent window.
StoresNewestWindow(route, types, requests) ==
  LET i == findTypeIndex(types, route.id)
  IN  /\ i > 0
      /\ Len(routeWindow(route, requests)) > 0
      /\ types[i].signature = signatureOfWindow(route, requests)

\* C26: runs of updateTypeDefinition for one route that overlap leave the
\* type of the most recent request window in state.types: once the type of
\* the route's current window is stored, a run that read an older window
\* and was suspended meanwhile does not replace it by the type of that
\* older window.
OverlappingRunsKeepNewestWindow ==
  [][\A n \in 1..Len(state_routes) :
       (/\ StoresNewestWindow(state_routes[n], state_types, state_requests)
        /\ state_requests' = state_requests
        /\ findTypeIndex(state_types', state_routes[n].id) > 0) =>
         StoresNewestWindow(state_routes[n], state_types', state_requests')]_vars

\* a ^ b on eight bits, bit by bit
XorByte(a, b) ==
  LET Bit(x, k) == (x \div (2 ^ k)) % 2
      Weighted(k) == (2 ^ k) * ((Bit(a, k) + Bit(b, k)) % 2)
  IN  Weighted(0) + Weighted(1) + Weighted(2) + Weighted(3)
      + Weighted(4) + Weighted(5) + Weighted(6) + Weighted(7)

\* One round of FNV-1a on a 32-bit value held as four bytes, the lowest
\* first: the character code is XORed into the low bytes, and the value is
\* multiplied by 0x01000193 = 2^24 + 403 modulo 2^32.
FnvRound(h, code) ==
  LET x0 == XorByte(h[1], code % 256)
      x1 == XorByte(h[2], (code \div 256) % 256)
      t0 == x0 * 403
      t1 == x1 * 403 + (t0 \div 256)
      t2 == h[3] * 403 + (t1 \div 256)
      t3 == h[4] * 403 + (t2 \div 256) + x0
  IN  <<t0 % 256, t1 % 256, t2 % 256, t3 % 256>>

RECURSIVE FnvBytes(_, _)
\* FNV-1a over the first n characters, from the offset basis 0x811c9dc5.
FnvBytes(input, n) ==
  IF n = 0 THEN <<197, 157, 28, 129>>
  ELSE LET before == FnvBytes(input, n - 1)
       IN  IF before[1] >= 0 THEN FnvRound(before, charCodeAt(input, n)) ELSE before

\* Four bytes as eight hexadecimal digits, the highest byte first.
HexOfBytes(h) ==
  LET Two(b) == CharAt("0123456789abcdef", (b \div 16) + 1)
                  \o CharAt("0123456789abcdef", (b % 16) + 1)
  IN  Two(h[4]) \o Two(h[3]) \o Two(h[2]) \o Two(h[1])

\* C29: fnv1aHash returns exactly 8 lowercase hexadecimal digits, those of
\* the unsigned 32-bit value FNV-1a gives (offset basis 0x811c9dc5, each
\* character code XORed in and the value then multiplied by 0x01000193
\* modulo 2^32), with zeros in front of a short value; equal inputs give
\* equal digits.
HashIsEightHexDigits ==
  pc = "done" =>
    /\ \A k \in 1..2 :
         /\ Len(outHash[k]) = 8
         /\ \A i \in 1..8 :
              \E d \in 1..16 : CharAt(outHash[k], i) = CharAt("0123456789abcdef", d)
         /\ outHash[k] = HexOfBytes(FnvBytes(outSerialized[k], Len(outSerialized[k])))
    /\ outSerialized[1] = outSerialized[2] => outHash[1] = outHash[2]

\* A value whose hash is below 0x10000000: the first digit is a padded zero.
HashIsEightHexDigitsWitness ==
  /\ pc = "done"
  /\ inValue = Arr(<<Arr(<<>>), Arr(<<Num(1), Num(1)>>)>>)
  /\ outSerialized[1] = "[[],[1,1]]"
  /\ outHash[1] = "0f34069f"

(***************************************************************************)
(* Properties of the storage-backed background script (SpecStorage)        *)
(***************************************************************************)

\* C27: when the handlers of two requests that completed concurrently have
\* both finished, browser.storage.local holds the recorded request of each
\* (the log is far below its limit of 100) and a generated type for every
\* route a request was recorded for.
NoStoredUpdateLost ==
  (\A h \in DOMAIN handlers : handlers[h].pc = "done") =>
    \A h \in DOMAIN handlers :
      Len(handlers[h].recorded) = 1 =>
        /\ \E n \in 1..Len(storage_requests) : storage_requests[n] = handlers[h].recorded[1]
        /\ findTypeIndex(storage_types, handlers[h].recorded[1].routeId) > 0

(***************************************************************************)
(* Properties of inferType on arrays (SpecArrays)                          *)
(***************************************************************************)

\* C28: inferType renders an empty array as any[]; of a non-empty array
\* the elements that count are all of them when analyzeAllArrayElements is
\* on and the first maxArraySamples (100 by default) when it is off, so
\* that an element past the cap changes nothing; one distinct type among
\* the elements that count renders as T[], several render as their union
\* in parentheses followed by [], each type once.
ArrayRendersCountedElements ==
  (pc = "done" /\ inArray.k = "arr") =>
    LET items == inArray.v
        counted == IF inOptions.analyzeAllArrayElements THEN 1..Len(items)
                   ELSE {i \in 1..Len(items) : i <= inOptions.maxArraySamples}
        types == {inferType(items[i], inOptions) : i \in counted}
    IN  IF Len(items) = 0 THEN outArrayType = "any[]"
        ELSE IF Cardinality(types) = 1
             THEN \E t \in types : outArrayType = t \o "[]"
        ELSE /\ startsWith(outArrayType, "(") /\ endsWith(outArrayType, ")[]")
             /\ LET members == UnionMembers(ElementUnion(outArrayType))
                IN  /\ Len(members) = Cardinality(types)
                    /\ {members[n] : n \in 1..Len(members)} = types

\* A hundred numbers and then a string, with the default cap and the
\* switch off: the string does not count.
ArrayRendersCountedElementsWitness ==
  /\ pc = "done" /\ inArray.k = "arr"
  /\ Len(inArray.v) = 101
  /\ inArray.v[100] = Num(1) /\ inArray.v[101] = Str("a")
  /\ ~inOptions.analyzeAllArrayElements /\ inOptions.maxArraySamples = 100
  /\ outArrayType = "number[]"

(***************************************************************************)
(* Properties of state.types against state.routes (Spec)                   *)
(***************************************************************************)

\* C30: every entry of state.types is the type of a route of state.routes,
\* in every state the background script reaches, DELETE_ROUTE and
\* CLEAR_ALL handled during a suspended regeneration included.
TypesReferToRoutes ==
  \A n \in 1..Len(state_types) :
    \E m \in 1..Len(state_routes) : state_routes[m].id = state_types[n].routeId

(***************************************************************************)
(* Properties of the stored types and of the writes to storage (Spec,      *)
(* SpecLive)                                                               *)
(***************************************************************************)

\* C38: state.types never holds two entries with the same routeId,
\* whatever regenerations run and however they overlap: a run that stores
\* a type for a route that has an entry puts it at the place of that entry
\* and the list keeps its length, and a list that grows grows by one entry
\* at its end, for a route that had none.
OneTypePerRoute ==
  /\ [](\A i, j \in 1..Len(state_types) :
          state_types[i].routeId = state_types[j].routeId => i = j)
  /\ [][Len(state_types') >= Len(state_types) /\ state_types' # state_types =>
         LET HadEntry(routeId) ==
               \E i \in 1..Len(state_types) : state_types[i].routeId = routeId
         IN  /\ \A i \in 1..Len(state_types) :
                   state_types'[i].routeId = state_types[i].routeId
             /\ Len(state_types') <= Len(state_types) + 1
             /\ Len(state_types') > Len(state_types) =>
                   ~HadEntry(state_types'[Len(state_types')].routeId)]_vars

\* Two runs for one route were suspended at formatCode together and both
\* have stored their type: the second one replaced the entry of the first.
OneTypePerRouteWitness ==
  /\ pc = "machine" /\ regenerations = <<>>
  /\ Len(state_types) = 1 /\ state_types[1].lastUpdated = 2
  /\ clock = 3 /\ events = 2 /\ Len(state_routes) = 1

\* The writes browser.storage.local.set has been called with and that have
\* not settled.
InFlight == {w \in 1..Len(storageWriteChain) : storageWriteChain[w].issued}

\* C34: at most one write of flushDirtyKeys is with storage at a time, and
\* it is the one whose flush began first; the write that settles is that
\* one, storage takes its payload or (when it is rejected) stays as it is,
\* the writes behind it keep their order, and set is called for the next
\* one whether the write was stored or rejected.
WritesInFlushOrder ==
  /\ [](InFlight = IF storageWriteChain = <<>> THEN {} ELSE {1})
  /\ [][Len(storageWriteChain') < Len(storageWriteChain) =>
         LET first == storageWriteChain[1]
             Written(key) == storage'[key] = first[key]
             Kept(key) == storage'[key] = storage[key]
         IN  /\ Len(storageWriteChain') = Len(storageWriteChain) - 1
             /\ \A w \in 1..Len(storageWriteChain') :
                   storageWriteChain'[w].keys = storageWriteChain[w + 1].keys
             /\ \/ storage' = storage
                \/ \A key \in {"routes", "requests", "types", "sampleLimit"} :
                     IF key \in first.keys THEN Written(key) ELSE Kept(key)
             /\ storageWriteChain' # <<>> => storageWriteChain'[1].issued]_vars

\* A flush of routes waits in the chain behind an earlier write of routes
\* that is still with storage.
WritesInFlushOrderWitness ==
  /\ pc = "machine" /\ Len(storageWriteChain) = 2
  /\ storageWriteChain[1].issued /\ ~storageWriteChain[2].issued
  /\ "routes" \in storageWriteChain[1].keys \cap storageWriteChain[2].keys
  /\ storageWriteChain[1].routes # state_routes

\* Nothing is left to write and storage holds what state holds.
FlushedAndStored ==
  dirtyKeys = {} /\ storageWriteChain = <<>> /\ storage = CurrentState

\* C33: when the timer fires and no write fails, then from some moment on
\* no key is dirty, no write is pending and storage holds the routes,
\* requests, types and sampleLimit of state.
DirtyKeysEventuallyStored == <>[]FlushedAndStored

\* The step is onCompleted of this request.
Completes(requestId) ==
  /\ requestId \in 1..Len(webRequests)
  /\ webRequests[requestId].phase = "headers"
  /\ webRequests'[requestId].phase = "completed"

\* The child routes of state.routes for this parent, method and path
ChildRoutesFor(routes, parentId, method, path) ==
  {i \in 1..Len(routes) :
     routes[i].parentId = parentId /\ routes[i].method = method /\ routes[i].path = path}

\* C37: state.routes never holds two child routes with the same parentId,
\* method and path, and the completion of a request for whose method and
\* normalized path an auto-detect route has a child already leaves
\* state.routes as it is.
ChildRoutesUnique ==
  /\ [](\A i, j \in 1..Len(state_routes) :
          /\ state_routes[i].parentId # ""
          /\ state_routes[i].parentId = state_routes[j].parentId
          /\ state_routes[i].method = state_routes[j].method
          /\ state_routes[i].path = state_routes[j].path
          => i = j)
  /\ [][\A requestId \in 1..Len(webRequests) : Completes(requestId) =>
          LET details == webRequests[requestId].details
              path == normalizePath(extractPath(getBaseUrl(details.url)))
          IN  /\ Len(state_routes') <= Len(state_routes) + 1
              /\ (\E i \in 1..Len(state_routes) :
                    /\ state_routes[i].isAutoDetect
                    /\ ChildRoutesFor(state_routes, state_routes[i].id, details.method, path) # {})
                 => state_routes' = state_routes]_vars

\* Two requests under the auto-detect route have completed and were
\* recorded under the one child route that the first of them created.
ChildRoutesUniqueWitness ==
  /\ pc = "capture" /\ Len(storage.routes) = 3 /\ Len(state_routes) = 4
  /\ state_routes[4].parentId = "r3" /\ state_routes[4].path = "/users/:id"
  /\ Len(webRequests) = 2 /\ OpenRequests = {}
  /\ Len(state_requests) = 2
  /\ \A i \in 1..2 : state_requests[i].routeId = state_routes[4].id

\* The enabled auto-detect routes whose baseUrl the URL of the request
\* matches, and the enabled pattern routes whose pattern it matches
AutoDetectMatches(routes, details) ==
  {i \in 1..Len(routes) :
     /\ routes[i].enabled /\ routes[i].isAutoDetect /\ routes[i].baseUrl # ""
     /\ matchesBaseUrl(getBaseUrl(details.url), routes[i].baseUrl)}

PatternMatches(routes, details) ==
  {i \in 1..Len(routes) :
     /\ routes[i].enabled /\ ~routes[i].isAutoDetect /\ routes[i].parentId = ""
     /\ routes[i].pattern # ""
     /\ matchesPattern(getBaseUrl(details.url), routes[i].pattern)}

\* The response of the request has arrived as JSON: a body that parsed to
\* a truthy value, and no content type or one of JSON.
HasJsonResponse(requestId) ==
  /\ requestId \in DOMAIN responseBodies /\ IsTruthy(responseBodies[requestId])
  /\ requestId \in DOMAIN responseMeta =>
       includes(responseMeta[requestId], "application/json")

\* C36: the completion of a request appends at most one RecordedRequest,
\* and none for a request that is not tracked or that no enabled route
\* matches; when an enabled auto-detect route matches, the entry is under
\* the child route of that route for the method and the normalized path of
\* the request, whether or not a pattern route matches too; otherwise it is
\* under the first enabled pattern route that matches; and a tracked
\* request that some route matches and whose response has arrived as JSON
\* is recorded.
RecordedUnderMatchedRoute ==
  [][\A requestId \in 1..Len(webRequests) : Completes(requestId) =>
       LET details == webRequests[requestId].details
           autos == AutoDetectMatches(state_routes, details)
           patterns == PatternMatches(state_routes, details)
           path == normalizePath(extractPath(getBaseUrl(details.url)))
           appended == Len(state_requests') - Len(state_requests)
           recorded == state_requests'[Len(state_requests')]
       IN  /\ appended \in {0, 1}
           /\ SubSeq(state_requests', 1, Len(state_requests)) = state_requests
           /\ ~IsTracked(details) \/ autos \cup patterns = {} => appended = 0
           /\ IsTracked(details) /\ autos \cup patterns # {} /\ HasJsonResponse(requestId)
                => appended = 1
           /\ appended = 1 /\ autos # {} =>
                \E i \in 1..Len(state_routes') :
                  /\ state_routes'[i].id = recorded.routeId
                  /\ state_routes'[i].parentId = state_routes[FirstIndex(autos)].id
                  /\ state_routes'[i].method = details.method
                  /\ state_routes'[i].path = path
           /\ appended = 1 /\ autos = {} =>
                recorded.routeId = state_routes[FirstIndex(patterns)].id]_vars

\* A request that the auto-detect route and the two enabled pattern routes
\* match has been recorded once, under the child route made for it.
RecordedUnderMatchedRouteWitness ==
  /\ pc = "capture" /\ Len(storage.routes) = 3 /\ events = 1
  /\ Len(webRequests) = 1 /\ OpenRequests = {}
  /\ Len(state_routes) = 4 /\ state_routes[4].parentId = "r3"
  /\ state_routes[4].method = "GET" /\ state_routes[4].path = "/users/:id"
  /\ state_requests = <<RecordedRequest(state_routes[4].id, ResponseA, Num(200))>>

\* C35: every step that appends a RecordedRequest appends it under a route
\* that state.routes holds as enabled in that step.
RecordedOnlyWhenEnabled ==
  [][Len(state_requests') > Len(state_requests) =>
       \E i \in 1..Len(state_routes') :
         /\ state_routes'[i].id = state_requests'[Len(state_requests')].routeId
         /\ state_routes'[i].enabled]_vars

\* The request ids for which one of the three Maps holds an entry
CachedRequests == DOMAIN requestBodies \cup DOMAIN responseBodies \cup DOMAIN responseMeta

\* C32: once onCompleted has run for a request, requestBodies,
\* responseBodies and responseMeta hold no entry for its request id.
NoCacheEntryAfterCompleted ==
  \A requestId \in 1..Len(webRequests) :
    webRequests[requestId].phase = "completed" => requestId \notin CachedRequests

\* The entries of a sequence whose routeId is none of these
WithoutRoutes(entries, routeIds) ==
  LET Kept(entry) == entry.routeId \notin routeIds IN SelectSeq(entries, Kept)

\* C31: when DELETE_ROUTE for route R has been handled, state.routes is
\* what it was without R and without the routes whose parentId is R, and
\* state.requests and state.types are what they were without the entries
\* whose routeId is R or one of those routes: the other routes, requests
\* and types are there as before, in their order.
DeleteRouteRemovesRouteAndChildren ==
  [][\A r \in 1..Len(state_routes) : DeleteRoute(state_routes[r].id) =>
       LET R == state_routes[r].id
           gone == {R} \cup {state_routes[i].id :
                               i \in {j \in 1..Len(state_routes) : state_routes[j].parentId = R}}
           KeptRoute(route) == route.id # R /\ route.parentId # R
       IN  /\ state_routes' = SelectSeq(state_routes, KeptRoute)
           /\ state_requests' = WithoutRoutes(state_requests, gone)
           /\ state_types' = WithoutRoutes(state_types, gone)
           /\ \A i \in 1..Len(state_requests') : state_requests'[i].routeId \notin gone
           /\ \A i \in 1..Len(state_types') : state_types'[i].routeId \notin gone]_vars

\* DELETE_ROUTE for the auto-detect route was handled: the route, its
\* child route and the request and the type of the child are gone, the
\* pattern routes and the request and the type of r2 are as before.
DeleteRouteRemovesRouteAndChildrenWitness ==
  /\ pc = "capture" /\ events = 1 /\ webRequests = <<>>
  /\ Len(storage.routes) = 4
  /\ state_routes = SubSeq(storage.routes, 1, 2)
  /\ state_requests = <<storage.requests[2]>> /\ state_requests[1].routeId = "r2"
  /\ state_types = <<storage.types[2]>> /\ state_types[1].routeId = "r2"

====
